---- MODULE Spec2Model ----
(***************************************************************************)
(* Model of the generated-code application pipeline of grow99:             *)
(* routes/apply_ai_code_stream.py (response parser, sanitizers, change-set *)
(* applier, preview restart).                                              *)
(*                                                                         *)
(* Text is modelled as a sequence of tokens.  A token is a record          *)
(* [k |-> kind, p |-> parameter], the parameter being a sequence of        *)
(* strings (a path split at "/", a component name, a module specifier      *)
(* split at "/") or <<>>.  Every regular expression and string operation   *)
(* of the source is computed on the token sequence the way the source      *)
(* computes it on characters; a token is the smallest piece of text the    *)
(* source's patterns tell apart.                                           *)
(*                                                                         *)
(*   open(p)    <file path="p">            close     </file>               *)
(*   nl         one newline (the only whitespace between tokens)           *)
(*   code       12 plain ASCII characters holding no keyword               *)
(*   x          1 plain ASCII character                                    *)
(*   emdash     U+2014      endash  U+2013    ellipsis  U+2026             *)
(*   hyphen     -           dot     .                                      *)
(*   tickp(p)   ```jsx p    tick    ```jsx    ticks     ```                *)
(*   pline(p)   // p        bold(p) **p**                                  *)
(*   impreact   import React from 'react'                                  *)
(*   fn         function App() {}          expdef    export default App    *)
(*   tailwind   @tailwind base;                                            *)
(*   impcomp(Y) import Y from './components/Y'     usecomp(Y)  <Y />       *)
(*   reqpkg(s)  const m = require('s')                                     *)
(*   impopen    import {    impname   useState,    impfrom  } from 'react' *)
(*   imppkg(s)  import m from 's'           impcss   import './App.css';   *)
(*   lquote     U+201C      rquote  U+201D    nbsp      U+00A0             *)
(*   fnq        func(U+201C)tion App() {}: the text of fn with one         *)
(*              character outside ASCII inside its keyword                 *)
(*                                                                         *)
(* code and x begin and end with a character that is no letter, and a      *)
(* keyword token (impreact, fn, expdef) is followed by such a character.   *)
(***************************************************************************)
EXTENDS Integers, Sequences, FiniteSets, TLC

VARIABLES
    response,        \* POST: response_text, the raw model text of the request
    parsed,          \* POST: parsed = parse_ai_response(response_text)
    pc,              \* position of the handler
    existing_files,  \* the module global existing_files: the known-file set
    cleanup_result,  \* POST: cleanup_result["filesRemoved"] > 0
    idx,             \* event_stream: position in files_array (from 1)
    results,         \* event_stream: results
    events,          \* the progress events yielded so far, in order
    snippets,        \* the snippets handed to _run_in_sandbox so far, in order
    sandbox_files,   \* the files of the sandbox under /home/user/app
    file_cache,      \* sandbox_state["fileCache"]["files"]: the cached manifest
    active_sandbox,  \* the module global active_sandbox: what the sandbox object offers
    again,           \* TRUE when the request repeats the one before it
    prev,            \* the write snippets of the request before this one
    suspended,       \* the request of the other task, waiting at an await
    MODULES,         \* main.py: the active_sandbox global of each route module
    sandboxes,       \* the sandboxes created so far, each "open" or "closed"
    last,            \* the endpoint that completed last, and its answer
    stream,          \* install_packages.py: the EventStreamResponse of the run
    consumer,        \* the iteration over the stream: what it received so far
    dev_server       \* the development server of the sandbox

\* ------------------------------------------------------------------------
\* Bounds of the model
\* ------------------------------------------------------------------------
MaxSegs == 2         \* pieces a response text of the parser runs is built of
MaxFiles == 2        \* <file> tags of a response text of the apply-requests
MaxLen == 3          \* tokens of a content handed to the sanitizers

\* ------------------------------------------------------------------------
\* Tokens
\* ------------------------------------------------------------------------
Tok(k, p) == [k |-> k, p |-> p]

NL       == Tok("nl", <<>>)
CODE     == Tok("code", <<>>)
XCH      == Tok("x", <<>>)
EMDASH   == Tok("emdash", <<>>)
HYPHEN   == Tok("hyphen", <<>>)
DOT      == Tok("dot", <<>>)
CLOSE    == Tok("close", <<>>)
TICK     == Tok("tick", <<>>)
TICKS    == Tok("ticks", <<>>)
IMPREACT == Tok("impreact", <<>>)
FN       == Tok("fn", <<>>)
EXPDEF   == Tok("expdef", <<>>)
TAILWIND == Tok("tailwind", <<>>)
IMPCSS   == Tok("impcss", <<>>)
LQUOTE   == Tok("lquote", <<>>)
RQUOTE   == Tok("rquote", <<>>)
FNQ      == Tok("fnq", <<>>)
IMPOPEN  == Tok("impopen", <<>>)
IMPNAME  == Tok("impname", <<>>)
IMPFROM  == Tok("impfrom", <<>>)

IsSpace(t) == t.k \in {"nl", "space", "nbsp"}

\* Number of characters of a path component or name.
NameLen(n) ==
    CASE n = "" -> 0
      [] n = "src" -> 3
      [] n = "components" -> 10
      [] n = "public" -> 6
      [] n = "App.jsx" -> 7
      [] n = "Header.jsx" -> 10
      [] n = "index.css" -> 9
      [] n = "index.html" -> 10
      [] n = "package.json" -> 12
      [] n = "Header" -> 6
      [] n = "Footer" -> 6
      [] n = "axios" -> 5
      [] OTHER -> 8

RECURSIVE PathLen(_)
PathLen(p) ==
    IF p = <<>> THEN 0
    ELSE NameLen(Head(p)) + (IF Len(p) > 1 THEN 1 + PathLen(Tail(p)) ELSE 0)

\* Number of characters of a token.
TokLen(t) ==
    CASE t.k \in {"nl", "x", "emdash", "endash", "ellipsis", "hyphen", "dot"} -> 1
      [] t.k = "code" -> 12
      [] t.k = "open" -> 14 + PathLen(t.p)
      [] t.k = "close" -> 7
      [] t.k = "tickp" -> 7 + PathLen(t.p)
      [] t.k = "tick" -> 6
      [] t.k = "ticks" -> 3
      [] t.k = "pline" -> 3 + PathLen(t.p)
      [] t.k = "bold" -> 4 + PathLen(t.p)
      [] t.k = "impreact" -> 25
      [] t.k = "fn" -> 17
      [] t.k = "fnq" -> 18
      [] t.k = "expdef" -> 18
      [] t.k = "tailwind" -> 15
      [] t.k = "impcomp" -> 2 * PathLen(t.p) + 29
      [] t.k = "usecomp" -> PathLen(t.p) + 4
      [] t.k = "imppkg" -> PathLen(t.p) + 17
      [] t.k = "reqpkg" -> PathLen(t.p) + 21
      [] t.k = "impcss" -> 19
      [] t.k = "impopen" -> 8
      [] t.k = "impname" -> 11
      [] t.k = "impfrom" -> 14
      [] OTHER -> 1

RECURSIVE TextLen(_)
TextLen(s) == IF s = <<>> THEN 0 ELSE TokLen(Head(s)) + TextLen(Tail(s))

\* str.strip(), str.rstrip()
RECURSIVE LStrip(_)
LStrip(s) == IF s # <<>> /\ IsSpace(Head(s)) THEN LStrip(Tail(s)) ELSE s

RECURSIVE RStrip(_)
RStrip(s) ==
    IF s # <<>> /\ IsSpace(s[Len(s)]) THEN RStrip(SubSeq(s, 1, Len(s) - 1)) ELSE s

Strip(s) == LStrip(RStrip(s))

\* The extension of a file name: what follows its last ".".
Ext(n) ==
    CASE n \in {"App.jsx", "Header.jsx", "Footer.jsx"} -> "jsx"
      [] n \in {"index.css", "App.css"} -> "css"
      [] n \in {"package.json", "tsconfig.json", "package-lock.json"} -> "json"
      [] n \in {"vite.config.js", "tailwind.config.js", "postcss.config.js"} -> "js"
      [] n = "index.html" -> "html"
      [] OTHER -> ""

LastName(p) == IF p = <<>> THEN "" ELSE p[Len(p)]

\* path.startswith("src/") on a path split at "/".
StartsWithDir(p, d) == Len(p) >= 2 /\ p[1] = d

\* ------------------------------------------------------------------------
\* sanitize_content_for_utf8
\* ------------------------------------------------------------------------
\* The replacement table as the source file holds it: the en dash, the em
\* dash and the ellipsis are replaced; the four quotation-mark keys and the
\* space key are written with plain ASCII characters, so those entries
\* replace a character by itself.
Replacement(t) ==
    CASE t.k = "endash" -> <<HYPHEN>>
      [] t.k = "emdash" -> <<HYPHEN, HYPHEN>>
      [] t.k = "ellipsis" -> <<DOT, DOT, DOT>>
      [] OTHER -> <<t>>

RECURSIVE ReplaceAll(_)
ReplaceAll(c) == IF c = <<>> THEN <<>> ELSE Replacement(Head(c)) \o ReplaceAll(Tail(c))

KeepDashes(content) == content
sanitize_content_for_utf8(content) == ReplaceAll(content)

\* ------------------------------------------------------------------------
\* parse_ai_response: the file strategies
\* ------------------------------------------------------------------------
MinIncompleteLen == 10

\* file_map[path] = {...}: a dict keeps the position of a key it already
\* holds and replaces its value.  origin is not a field of the source: it
\* records which strategy stored the entry.
PutAppend(file_map, path, content, is_complete, origin) ==
    Append(file_map, [path |-> path, content |-> content,
                      is_complete |-> is_complete, origin |-> origin])
Put(file_map, path, content, is_complete, origin) ==
    LET e == [path |-> path, content |-> content,
              is_complete |-> is_complete, origin |-> origin]
    IN IF \E i \in 1..Len(file_map) : file_map[i].path = path
       THEN [i \in 1..Len(file_map) |->
                IF file_map[i].path = path THEN e ELSE file_map[i]]
       ELSE Append(file_map, e)

\* First index j >= i of s with s[j].k in kinds, or 0.
FirstOf(s, i, kinds) ==
    IF \E j \in i..Len(s) : s[j].k \in kinds
    THEN CHOOSE j \in i..Len(s) :
            s[j].k \in kinds /\ \A m \in i..(j - 1) : s[m].k \notin kinds
    ELSE 0

NoMatch == [ok |-> FALSE, path |-> <<>>, content |-> <<>>, next |-> 0]
Match(path, content, next) ==
    [ok |-> TRUE, path |-> path, content |-> content, next |-> next]

\* <file\s+path="([^"]+)">(.*?)</file>
xml_pattern(s, i) ==
    IF s[i].k = "open" /\ FirstOf(s, i + 1, {"close"}) # 0
    THEN LET j == FirstOf(s, i + 1, {"close"})
         IN Match(s[i].p, SubSeq(s, i + 1, j - 1), j + 1)
    ELSE NoMatch

\* <file\s+path="([^"]+)">(.*?)(?=<file|$)
incomplete_pattern(s, i) ==
    IF s[i].k = "open"
    THEN LET j == FirstOf(s, i + 1, {"open"})
             e == IF j = 0 THEN Len(s) + 1 ELSE j
         IN Match(s[i].p, SubSeq(s, i + 1, e - 1), e)
    ELSE NoMatch

\* content.replace("</file>", "")
RECURSIVE RemoveClose(_)
RemoveClose(c) ==
    IF c = <<>> THEN <<>>
    ELSE IF Head(c).k = "close" THEN RemoveClose(Tail(c))
    ELSE <<Head(c)>> \o RemoveClose(Tail(c))

IsFenceStart(t) == t.k \in {"ticks", "tick", "tickp"}
IsCodeExt(n) == Ext(n) \in {"js", "jsx", "ts", "tsx"}

\* Last index of the run of newlines that starts at i (i - 1 when s[i] is none).
RECURSIVE RunEnd(_, _)
RunEnd(s, i) == IF i <= Len(s) /\ IsSpace(s[i]) THEN RunEnd(s, i + 1) ELSE i - 1

\* \s*\n(.*?)\n``` after a fence header whose last token is s[h].
FenceBody(s, h, path) ==
    LET e     == RunEnd(s, h + 1)
        start == e + 1
        ends  == {j \in start..(Len(s) - 1) : IsSpace(s[j]) /\ IsFenceStart(s[j + 1])}
    IN IF e = h THEN NoMatch
       ELSE IF ends # {}
       THEN LET j == CHOOSE j \in ends : \A m \in ends : j <= m
            IN Match(path, SubSeq(s, start, j - 1), j + 2)
       ELSE IF e - h >= 2 /\ start <= Len(s) /\ IsFenceStart(s[start])
       THEN Match(path, <<>>, start + 1)
       ELSE NoMatch

\* ```(?:jsx|js|javascript|tsx|ts|css)\s+(?:path=["'`])?([^\s\n"'`]+\.(?:jsx?|tsx?|css))\s*\n(.*?)\n```
code_block_pattern1(s, i) ==
    IF s[i].k = "tickp" /\ (IsCodeExt(LastName(s[i].p)) \/ Ext(LastName(s[i].p)) = "css")
    THEN FenceBody(s, i, s[i].p)
    ELSE NoMatch

\* ```(?:jsx|js|javascript|tsx|ts|css)\s*\n(?://\s*)?([^\s\n]+\.(?:jsx?|tsx?|css))\s*\n(.*?)\n```
code_block_pattern2(s, i) ==
    LET h == RunEnd(s, i + 1) + 1
    IN IF s[i].k = "tick" /\ h > i + 1 /\ h <= Len(s) /\ s[h].k = "pline"
          /\ (IsCodeExt(LastName(s[h].p)) \/ Ext(LastName(s[h].p)) = "css")
       THEN FenceBody(s, h, s[h].p)
       ELSE NoMatch

\* \*\*(src/[^*\n]+)\*\*\s*```(?:jsx|js|css|json)?\s*\n(.*?)\n```
markdown_pattern(s, i) ==
    LET h == RunEnd(s, i + 1) + 1
    IN IF s[i].k = "bold" /\ StartsWithDir(s[i].p, "src")
          /\ h <= Len(s) /\ s[h].k \in {"ticks", "tick"}
       THEN FenceBody(s, h, s[i].p)
       ELSE NoMatch

\* import React.*?(?:export default \w+|export \{ \w+ as default \})
component_pattern1(s, i) ==
    IF s[i].k = "impreact" /\ FirstOf(s, i + 1, {"expdef"}) # 0
    THEN LET j == FirstOf(s, i + 1, {"expdef"})
         IN Match(<<>>, SubSeq(s, i, j), j + 1)
    ELSE NoMatch

\* (?:function|const) \w+.*?export default \w+
component_pattern2(s, i) ==
    IF s[i].k = "fn" /\ FirstOf(s, i + 1, {"expdef"}) # 0
    THEN LET j == FirstOf(s, i + 1, {"expdef"})
         IN Match(<<>>, SubSeq(s, i, j), j + 1)
    ELSE NoMatch

\* re.findall: the matches at increasing positions, none overlapping; at[i] is
\* the pattern's match at position i of s.
RECURSIVE FindAll(_, _, _)
FindAll(at, s, i) ==
    IF i > Len(s) THEN <<>>
    ELSE IF at[i].ok
    THEN <<[path |-> at[i].path, content |-> at[i].content]>> \o FindAll(at, s, at[i].next)
    ELSE FindAll(at, s, i + 1)

xml_matches(r)        == FindAll([i \in 1..Len(r) |-> xml_pattern(r, i)], r, 1)
incomplete_matches(r) == FindAll([i \in 1..Len(r) |-> incomplete_pattern(r, i)], r, 1)
markdown_matches(r)   == FindAll([i \in 1..Len(r) |-> markdown_pattern(r, i)], r, 1)

\* for pattern in code_block_patterns: ... if code_matches: ...; break
code_matches(r) ==
    IF FindAll([i \in 1..Len(r) |-> code_block_pattern1(r, i)], r, 1) # <<>>
    THEN FindAll([i \in 1..Len(r) |-> code_block_pattern1(r, i)], r, 1)
    ELSE FindAll([i \in 1..Len(r) |-> code_block_pattern2(r, i)], r, 1)

extracted_components(r) ==
    FindAll([i \in 1..Len(r) |-> component_pattern1(r, i)], r, 1) \o FindAll([i \in 1..Len(r) |-> component_pattern2(r, i)], r, 1)

\* The path rewriting of strategy 3.
CodeBlockPath(path) ==
    IF ~StartsWithDir(path, "src") /\ IsCodeExt(LastName(path))
    THEN IF \E i \in 1..(Len(path) - 1) : path[i] = "components"
         THEN <<"src">> \o path
         ELSE IF ~(Len(path) >= 2 /\ path[1] = "") /\ path # <<"index.css">>
         THEN <<"src">> \o path
         ELSE path
    ELSE IF path = <<"index.css">> THEN <<"src", "index.css">>
    ELSE path

\* Strategy 1: lines 524-534.
RECURSIVE StoreXml(_, _)
StoreXml(file_map, ms) ==
    IF ms = <<>> THEN file_map
    ELSE LET cleaned_content == sanitize_content_for_utf8(Strip(Head(ms).content))
         IN StoreXml(IF cleaned_content # <<>>
                     THEN Put(file_map, Head(ms).path, cleaned_content, TRUE, 1)
                     ELSE file_map,
                     Tail(ms))

\* Strategy 2: lines 536-547.
RECURSIVE StoreIncomplete(_, _)
StoreIncomplete(file_map, ms) ==
    IF ms = <<>> THEN file_map
    ELSE LET cleaned_content ==
                 sanitize_content_for_utf8(Strip(RemoveClose(Head(ms).content)))
         IN StoreIncomplete(
                IF cleaned_content # <<>> /\ TextLen(cleaned_content) > MinIncompleteLen
                THEN Put(file_map, Head(ms).path, cleaned_content, FALSE, 2)
                ELSE file_map,
                Tail(ms))

\* Strategy 3: lines 549-574.
RECURSIVE StoreCodeBlocks(_, _)
StoreCodeBlocks(file_map, ms) ==
    IF ms = <<>> THEN file_map
    ELSE LET cleaned_content == sanitize_content_for_utf8(Strip(Head(ms).content))
         IN StoreCodeBlocks(
                IF cleaned_content # <<>>
                THEN Put(file_map, CodeBlockPath(Head(ms).path), cleaned_content, TRUE, 3)
                ELSE file_map,
                Tail(ms))

\* Strategy 4: lines 576-585 (an empty content is stored too).
RECURSIVE StoreMarkdown(_, _)
StoreMarkdown(file_map, ms) ==
    IF ms = <<>> THEN file_map
    ELSE StoreMarkdown(
             Put(file_map, Head(ms).path,
                 sanitize_content_for_utf8(Strip(Head(ms).content)), TRUE, 4),
             Tail(ms))

\* max(extracted_components, key=len): the first of the longest.
largest_component(ms) ==
    LET i == CHOOSE i \in 1..Len(ms) :
                 /\ \A j \in 1..Len(ms) : TextLen(ms[j].content) <= TextLen(ms[i].content)
                 /\ \A j \in 1..(i - 1) : TextLen(ms[j].content) < TextLen(ms[i].content)
    IN ms[i].content

\* The stylesheet strategy 5 adds (line 613), abridged to its first line and the rest.
DefaultCss == <<TAILWIND, NL, CODE>>

HasReactIdiom(r) == \E i \in 1..Len(r) : r[i].k \in {"impreact", "fn", "expdef"}

\* Strategy 5: lines 587-616.
StoreReact(file_map, r) ==
    LET ms  == extracted_components(r)
        fm1 == IF ms # <<>>
               THEN Put(file_map, <<"src", "App.jsx">>,
                        sanitize_content_for_utf8(Strip(largest_component(ms))), TRUE, 5)
               ELSE file_map
    IN IF ~\E i \in 1..Len(fm1) : LastName(fm1[i].path) = "index.css"
       THEN Put(fm1, <<"src", "index.css">>, sanitize_content_for_utf8(DefaultCss), TRUE, 5)
       ELSE fm1

\* Strategy 6: lines 618-632.
StoreLastResort(file_map, r) ==
    LET f   == FirstOf(r, 1, {"fn"})
        e   == IF f = 0 THEN 0 ELSE FirstOf(r, f + 1, {"expdef"})
        fm1 == IF e # 0
               THEN Put(file_map, <<"src", "App.jsx">>,
                        sanitize_content_for_utf8(Strip(SubSeq(r, f, e))), FALSE, 6)
               ELSE file_map
    IN IF FirstOf(r, 1, {"tailwind"}) # 0
       THEN Put(fm1, <<"src", "index.css">>,
                sanitize_content_for_utf8(<<TAILWIND>>), FALSE, 6)
       ELSE fm1

\* "if not file_map:" before strategies 2 to 6.
AlwaysTryNext(file_map) == TRUE
NotFileMap(file_map) == file_map = <<>>

file_map1(r) == StoreXml(<<>>, xml_matches(r))
\* Each strategy after the first runs only when the map is still empty.
IfIncomplete(file_map, r) ==
    IF NotFileMap(file_map) THEN StoreIncomplete(file_map, incomplete_matches(r))
    ELSE file_map
IfCodeBlocks(file_map, r) ==
    IF NotFileMap(file_map) THEN StoreCodeBlocks(file_map, code_matches(r))
    ELSE file_map
IfMarkdown(file_map, r) ==
    IF NotFileMap(file_map) THEN StoreMarkdown(file_map, markdown_matches(r))
    ELSE file_map
IfReact(file_map, r) ==
    IF NotFileMap(file_map) /\ HasReactIdiom(r) THEN StoreReact(file_map, r)
    ELSE file_map
IfLastResort(file_map, r) ==
    IF NotFileMap(file_map) THEN StoreLastResort(file_map, r)
    ELSE file_map

file_map2(r) == IfIncomplete(file_map1(r), r)
file_map3(r) == IfCodeBlocks(file_map2(r), r)
file_map4(r) == IfMarkdown(file_map3(r), r)
file_map5(r) == IfReact(file_map4(r), r)
file_map6(r) == IfLastResort(file_map5(r), r)

\* Which strategies ran their pattern on the text (not a value of the source).
tried(r) ==
    {1} \cup (IF NotFileMap(file_map1(r)) THEN {2} ELSE {})
        \cup (IF NotFileMap(file_map2(r)) THEN {3} ELSE {})
        \cup (IF NotFileMap(file_map3(r)) THEN {4} ELSE {})
        \cup (IF NotFileMap(file_map4(r)) /\ HasReactIdiom(r) THEN {5} ELSE {})
        \cup (IF NotFileMap(file_map5(r)) THEN {6} ELSE {})

\* ------------------------------------------------------------------------
\* parse_files_from_content of generate_ai_stream.py: its own sanitizer, and
\* the strategy that ends the parse with the paths it returns.
\* ------------------------------------------------------------------------
\* The replacement table of generate_ai_stream.py (lines 221-230): its keys
\* are written as escapes, so the quotation marks and the space are replaced.
GenerateReplacement(t) ==
    CASE t.k \in {"lquote", "rquote"} -> <<Tok("dquote", <<>>)>>
      [] t.k = "nbsp" -> <<Tok("space", <<>>)>>
      [] OTHER -> Replacement(t)

RECURSIVE generate_sanitize_content_for_utf8(_)
generate_sanitize_content_for_utf8(c) ==
    IF c = <<>> THEN <<>>
    ELSE GenerateReplacement(Head(c)) \o generate_sanitize_content_for_utf8(Tail(c))

PathsOf(ms) == [i \in 1..Len(ms) |-> ms[i].path]

\* Strategy 1 (lines 1277-1289): every match with a content is appended.
FilesXml(ms) ==
    PathsOf(SelectSeq(ms, LAMBDA m :
        generate_sanitize_content_for_utf8(Strip(m.content)) # <<>>))

\* Strategy 2 (lines 1292-1304).
FilesIncomplete(ms) ==
    PathsOf(SelectSeq(ms, LAMBDA m :
        TextLen(generate_sanitize_content_for_utf8(Strip(RemoveClose(m.content))))
            > MinIncompleteLen))

\* Strategy 3 (lines 1307-1332).
FilesCodeBlocks(ms) ==
    [i \in 1..Len(FilesXml(ms)) |-> CodeBlockPath(FilesXml(ms)[i])]

\* Strategy 5 (lines 1348-1384): the component if one is found, and the
\* stylesheet, which no file precedes.
FilesReact(c) ==
    (IF extracted_components(c) # <<>> THEN <<(<<"src", "App.jsx">>)>> ELSE <<>>)
    \o <<(<<"src", "index.css">>)>>

\* Strategy 6 (lines 1387-1411).
FilesLastResort(c) ==
    (IF FirstOf(c, 1, {"fn"}) # 0 /\ FirstOf(c, FirstOf(c, 1, {"fn"}) + 1, {"expdef"}) # 0
     THEN <<(<<"src", "App.jsx">>)>> ELSE <<>>)
    \o (IF FirstOf(c, 1, {"tailwind"}) # 0 THEN <<(<<"src", "index.css">>)>> ELSE <<>>)

\* Lines 1277-1411 on the sanitized text c: a strategy whose pattern matches
\* returns what it collected, a file or none.
FilesFrom(c) ==
    IF xml_matches(c) # <<>>
    THEN [strategy |-> 1, paths |-> FilesXml(xml_matches(c))]
    ELSE IF incomplete_matches(c) # <<>>
    THEN [strategy |-> 2, paths |-> FilesIncomplete(incomplete_matches(c))]
    ELSE IF code_matches(c) # <<>>
    THEN [strategy |-> 3, paths |-> FilesCodeBlocks(code_matches(c))]
    ELSE IF markdown_matches(c) # <<>>
    THEN [strategy |-> 4, paths |-> PathsOf(markdown_matches(c))]
    ELSE IF HasReactIdiom(c)
    THEN [strategy |-> 5, paths |-> FilesReact(c)]
    ELSE [strategy |-> 6, paths |-> FilesLastResort(c)]

\* Line 1270: the whole text is sanitized before any pattern runs.
parse_files_from_content(content) == FilesFrom(generate_sanitize_content_for_utf8(content))

\* name.startswith("@") for the first segment of a specifier.
StartsWithAt(n) == n \in {"@", "@scope", "@heroicons"}

\* extract_packages_from_code: the root package of every import specifier
\* that is no path, not react or react-dom and no "@/" alias, each once.
RECURSIVE extract_packages_from_code(_)
extract_packages_from_code(content) ==
    IF content = <<>> THEN <<>>
    ELSE LET t    == Head(content)
             rest == extract_packages_from_code(Tail(content))
             keep == /\ t.k = "imppkg"
                     /\ t.p # <<>>
                     /\ t.p[1] \notin {".", "..", ""}
                     /\ t.p \notin {<<"react">>, <<"react-dom">>}
                     /\ ~(t.p[1] = "@" /\ Len(t.p) >= 2)
             package_name == IF keep /\ StartsWithAt(t.p[1])
                             THEN SubSeq(t.p, 1, IF Len(t.p) >= 2 THEN 2 ELSE 1)
                             ELSE SubSeq(t.p, 1, 1)
         IN IF keep
            THEN <<package_name>> \o SelectSeq(rest, LAMBDA q : q # package_name)
            ELSE rest

\* sections["files"] and sections["packages"]: lines 634-649.
RECURSIVE FilePackages(_, _)
FilePackages(packages, file_map) ==
    IF file_map = <<>> THEN packages
    ELSE LET new == SelectSeq(extract_packages_from_code(Head(file_map).content),
                              LAMBDA q : \A i \in 1..Len(packages) : packages[i] # q)
         IN FilePackages(packages \o new, Tail(file_map))

\* Lines 682-696: the files in the order of the map, and their packages.
ParseResult(file_map, r) ==
    [files    |-> [i \in 1..Len(file_map) |->
                      [path    |-> file_map[i].path,
                       content |-> file_map[i].content,
                       origin  |-> file_map[i].origin]],
     packages |-> FilePackages(<<>>, file_map),
     tried    |-> tried(r)]

parse_ai_response(r) == ParseResult(file_map6(r), r)

\* ------------------------------------------------------------------------
\* The response texts of the parser runs
\* ------------------------------------------------------------------------
AppPath    == <<"src", "App.jsx">>
HeaderPath == <<"src", "components", "Header.jsx">>

TagPaths == {AppPath, HeaderPath}
Bodies   == {<<>>, <<NL>>, <<CODE>>, <<NL, CODE, EMDASH, NL>>, <<XCH>>,
             <<LQUOTE, CODE, RQUOTE>>}

Pieces ==
    {<<Tok("open", p)>> \o b \o <<CLOSE>> : p \in TagPaths, b \in Bodies}
    \cup {<<Tok("open", p)>> \o b : p \in TagPaths, b \in Bodies}
    \cup {<<Tok("tickp", <<"App.jsx">>), NL>> \o b \o <<NL, TICKS>> : b \in {<<>>, <<CODE>>}}
    \cup {<<TICK, NL, Tok("pline", <<"index.css">>), NL, CODE, NL, TICKS>>}
    \cup {<<Tok("bold", AppPath), NL, TICK, NL>> \o b \o <<NL, TICKS>> : b \in {<<>>, <<CODE>>}}
    \cup {<<IMPREACT, NL, FN, NL, EXPDEF, NL>>, <<FN, NL, CODE, EXPDEF, NL>>,
          <<EXPDEF, NL>>, <<TAILWIND>>, <<CODE>>}

RECURSIVE Texts(_)
Texts(n) ==
    IF n = 0 THEN {<<>>}
    ELSE {t \o q : t \in Texts(n - 1), q \in Pieces} \cup Texts(n - 1)

ParseTexts == Texts(MaxSegs) \ {<<>>}


\* ------------------------------------------------------------------------
\* sanitize_and_validate_jsx
\* ------------------------------------------------------------------------
IsImport(t) == t.k \in {"impreact", "impcomp", "imppkg", "impcss", "impopen"}
IsAscii(t)  == t.k \notin {"emdash", "endash", "ellipsis", "lquote", "rquote", "nbsp", "fnq"}
Has(content, kinds) == \E i \in 1..Len(content) : content[i].k \in kinds

\* content.split('\n') and '\n'.join(lines)
RECURSIVE SplitLines(_)
SplitLines(content) ==
    LET n == FirstOf(content, 1, {"nl"})
    IN IF n = 0 THEN <<content>>
       ELSE <<SubSeq(content, 1, n - 1)>> \o SplitLines(SubSeq(content, n + 1, Len(content)))

RECURSIVE JoinLines(_)
JoinLines(lines) ==
    IF Len(lines) = 1 THEN lines[1]
    ELSE lines[1] \o <<NL>> \o JoinLines(Tail(lines))

\* The loop of lines 104-108: the index after the last import line met
\* before the first line that is neither empty nor an import.
RECURSIVE ImportEnd(_, _, _)
ImportEnd(lines, i, import_end) ==
    IF i > Len(lines) THEN import_end
    ELSE IF lines[i] # <<>> /\ IsImport(lines[i][1]) THEN ImportEnd(lines, i + 1, i)
    ELSE IF lines[i] # <<>> THEN import_end
    ELSE ImportEnd(lines, i + 1, import_end)

\* Lines 99-112.
EnsureReactImport(content) ==
    IF ~Has(content, {"impreact"}) /\ Has(content, {"fn"})
    THEN IF Strip(content) # <<>> /\ IsImport(Head(Strip(content)))
         THEN LET lines == SplitLines(content)
                  e     == ImportEnd(lines, 1, 0)
              IN JoinLines(SubSeq(lines, 1, e) \o <<(<<IMPREACT>>)>>
                           \o SubSeq(lines, e + 1, Len(lines)))
         ELSE <<IMPREACT, NL, NL>> \o content
    ELSE content

\* Lines 115-121.
EnsureExportDefault(content) ==
    IF ~Has(content, {"expdef"}) /\ Has(content, {"fn"})
    THEN RStrip(content) \o <<NL, NL, EXPDEF>>
    ELSE content

\* re.sub(r'[^\x20-\x7E\n\t\r]', '', content): a character outside ASCII is
\* dropped, and what stood on its two sides is joined.
RECURSIVE RemoveNonAscii(_)
RemoveNonAscii(content) ==
    IF content = <<>> THEN <<>>
    ELSE (CASE Head(content).k = "fnq" -> <<FN>>
            [] ~IsAscii(Head(content)) -> <<>>
            [] OTHER -> <<Head(content)>>) \o RemoveNonAscii(Tail(content))

sanitize_and_validate_jsx(content, file_path) ==
    IF Ext(LastName(file_path)) = "jsx"
    THEN RemoveNonAscii(EnsureExportDefault(EnsureReactImport(ReplaceAll(content))))
    ELSE ReplaceAll(content)

\* re.sub(r"""import\s+['"]\./[^'"]+\.css['"];?\s*\n?""", "", fcontent)
RECURSIVE RemoveCssImports(_)
RemoveCssImports(c) ==
    IF c = <<>> THEN <<>>
    ELSE IF Head(c).k = "impcss"
    THEN RemoveCssImports(SubSeq(c, RunEnd(c, 2) + 1, Len(c)))
    ELSE <<Head(c)>> \o RemoveCssImports(Tail(c))

\* ------------------------------------------------------------------------
\* The change-set applier: one iteration of the loop of lines 928-1059
\* ------------------------------------------------------------------------
config_files ==
    {"tailwind.config.js", "vite.config.js", "package.json",
     "package-lock.json", "tsconfig.json", "postcss.config.js"}

\* Lines 947-948.
StripLeadingSlash(fpath) ==
    IF Len(fpath) >= 2 /\ fpath[1] = "" THEN Tail(fpath) ELSE fpath

\* Lines 959-960.
RootUnderSrc(fpath) ==
    IF StartsWithDir(fpath, "src") \/ StartsWithDir(fpath, "public")
       \/ fpath = <<"index.html">>
    THEN fpath
    ELSE <<"src">> \o fpath

NormalizedPath(path) == RootUnderSrc(StripLeadingSlash(path))

\* Lines 962-966: the content put into the write snippet.
WrittenContent(file) ==
    LET fpath == NormalizedPath(file.path)
        c     == IF Ext(LastName(fpath)) \in {"js", "jsx", "ts", "tsx"}
                 THEN RemoveCssImports(file.content)
                 ELSE file.content
    IN sanitize_and_validate_jsx(c, fpath)

\* Line 933.
IsEmptyFile(file) == file.path = <<>> \/ file.content = <<>>
\* The test of line 955 on the whole path: only a configuration file at the
\* root is skipped.
RootConfigOnly(file) == \E n \in config_files : StripLeadingSlash(file.path) = <<n>>
\* Line 955.
IsConfigFile(file) == LastName(StripLeadingSlash(file.path)) \in config_files

\* Line 968.
is_update(fpath, known) == fpath \in known

\* Line 1039: (existing_files or set()).add(fpath).  An empty set is false,
\* so the path is added to a new set that nothing refers to.
AddKnown(known, fpath) == IF known = {} THEN known ELSE known \cup {fpath}

\* What one call of _run_in_sandbox can come to:
\*   ok     the snippet ran to its end
\*   error  the run method raised (caught at line 252) or the snippet failed
\*   raise  the sandbox object has no run method (line 234)
Outcomes == {"ok", "error"}
Sandboxes == {"runnable", "norun"}
_run_in_sandbox(sandbox, o) == IF sandbox = "norun" THEN "raise" ELSE o

Snippet(kind, path, content, outcome) ==
    [kind |-> kind, path |-> path, content |-> content, outcome |-> outcome]

\* Lines 1020-1031 on the output of the write snippet of lines 978-1014: it
\* prints success only when the file read back is not empty.
AlwaysSuccess(content, outcome) == TRUE
write_success(content, outcome) == outcome = "ok" /\ content # <<>>

Event(type, fileName, action) ==
    [type |-> type, fileName |-> fileName, action |-> action, results |-> <<>>]

NoResults ==
    [filesCreated |-> <<>>, filesUpdated |-> <<>>, packagesInstalled |-> <<>>,
     packagesAlreadyInstalled |-> <<>>, packagesFailed |-> <<>>,
     commandsExecuted |-> <<>>, errors |-> <<>>]

files_array == parsed.files

\* Lines 840-852: the packages of the request, react and react-dom left out.
unique_pkgs == SelectSeq(parsed.packages, LAMBDA q : q \notin {<<"react">>, <<"react-dom">>})

AnyRequest(r) == TRUE
FilesChanged(r) == r.filesCreated # <<>> \/ r.filesUpdated # <<>>

\* ------------------------------------------------------------------------
\* The response texts of the apply-requests
\* ------------------------------------------------------------------------
Comp(Y)  == Tok("impcomp", <<Y>>)
Use(Y)   == Tok("usecomp", <<Y>>)

AppBody   == <<Comp("Header"), NL, Comp("Footer"), NL, FN, NL,
               Use("Header"), Use("Footer"), NL, EXPDEF>>
PlainBody == <<IMPREACT, NL, FN, NL, EXPDEF>>
PkgBody   == <<Tok("imppkg", <<"axios">>), NL, IMPCSS, NL, FN, EMDASH>>

ApplyTags ==
    {<<Tok("open", AppPath)>> \o AppBody \o <<CLOSE, NL>>,
     <<Tok("open", <<"App.jsx">>)>> \o PkgBody \o <<CLOSE, NL>>,
     <<Tok("open", HeaderPath)>> \o PlainBody \o <<CLOSE, NL>>,
     <<Tok("open", <<"package.json">>), CODE, CLOSE, NL>>,
     <<Tok("open", <<"src", "vite.config.js">>), CODE, CLOSE, NL>>}

RECURSIVE TagTexts(_)
TagTexts(n) ==
    IF n = 0 THEN {<<>>}
    ELSE {t \o q : t \in TagTexts(n - 1), q \in ApplyTags} \cup TagTexts(n - 1)

\* A text that holds no file for any strategy.
NoFileText == <<CODE, NL>>

ApplyResponses == (TagTexts(MaxFiles) \ {<<>>}) \cup {NoFileText}

InitialKnown == {{}, {<<"src", "index.css">>}}

\* The files the requests can hold, and for each the content the loop of
\* lines 962-966 makes of it (WrittenContent, computed once for each file).
\* FileEdit paths with ".." segments and leading separators: up to MaxDirs
\* directory components, among them "" (a separator with nothing before it)
\* and "..", and a file name.
MaxDirs == 2

RECURSIVE Dirs(_)
Dirs(n) ==
    IF n = 0 THEN {<<>>}
    ELSE {Append(d, c) : d \in Dirs(n - 1), c \in {"", "..", "src", "public"}}
         \cup Dirs(n - 1)

EditPaths == {d \o <<n>> : d \in Dirs(MaxDirs), n \in {"App.jsx", "index.html", "package.json"}}

PathFiles == {[path |-> p, content |-> <<CODE>>, origin |-> 1] : p \in EditPaths}

RequestFiles ==
    UNION {{parse_ai_response(r).files[i] : i \in 1..Len(parse_ai_response(r).files)} :
              r \in ApplyResponses}
    \cup PathFiles

written_content == [file \in RequestFiles |-> WrittenContent(file)]

services == <<MODULES, sandboxes, last, stream, consumer, dev_server>>

vars == <<response, parsed, pc, existing_files, cleanup_result, idx, results,
          events, snippets, sandbox_files, file_cache, active_sandbox, again, prev,
          suspended, services>>

NoParse == [files |-> <<>>, packages |-> <<>>, tried |-> {}]

session == <<existing_files, sandbox_files, file_cache, active_sandbox, again, prev,
             suspended, services>>
request == <<cleanup_result, idx, results, events, snippets>>

\* ------------------------------------------------------------------------
\* The parser runs
\* ------------------------------------------------------------------------
\* A task that has no request yet.
NoRequest ==
    [response |-> <<>>, parsed |-> NoParse, pc |-> "idle", cleanup_result |-> FALSE,
     idx |-> 1, results |-> NoResults, events |-> <<>>, snippets |-> <<>>]

\* main.py, _load_all: the route modules that have an active_sandbox global
\* and that sync_globals writes, in the order in which MODULES holds them.
module_specs ==
    <<"apply_ai_code_stream", "create_ai_sandbox", "get_sandbox_files", "restart_vite",
      "sandbox_status", "kill_sandbox", "sandbox_logs">>

ModuleNames == {module_specs[i] : i \in 1..Len(module_specs)}

\* active_sandbox = None in a module is 0; a sandbox is its number.
None == 0
NoModules == [m \in ModuleNames |-> None]
NoCall == [op |-> "none", sandbox |-> None, answer |-> "", sandboxId |-> None,
           before |-> None]

\* EventStreamResponse.__init__, lines 44-51, and a consumer that has not
\* received anything.
EventStreamResponse == [queue |-> <<>>, closed |-> FALSE]
NoConsumer == [received |-> <<>>, done |-> FALSE]

Idle ==
    /\ suspended = NoRequest
    /\ MODULES = NoModules
    /\ sandboxes = <<>>
    /\ last = NoCall
    /\ stream = EventStreamResponse
    /\ consumer = NoConsumer
    /\ dev_server = "running"
    /\ cleanup_result = FALSE
    /\ idx = 1
    /\ results = NoResults
    /\ events = <<>>
    /\ snippets = <<>>
    /\ file_cache = {}
    /\ again = FALSE
    /\ prev = <<>>

InitParse ==
    /\ response \in ParseTexts
    /\ parsed = NoParse
    /\ pc = "text"
    /\ existing_files = {}
    /\ sandbox_files = {}
    /\ active_sandbox = "runnable"
    /\ Idle

Parse ==
    /\ pc = "text"
    /\ parsed' = parse_ai_response(response)
    /\ pc' = "parsed"
    /\ UNCHANGED <<response, session, request>>

NextParse == Parse

\* The same text given to the two parsers: parse_ai_response of the apply
\* side and parse_files_from_content of the generate side.
ParseBoth ==
    /\ pc = "text"
    /\ parsed' = [applied   |-> parse_ai_response(response),
                  generated |-> parse_files_from_content(response)]
    /\ pc' = "both"
    /\ UNCHANGED <<response, session, request>>

NextParsers == ParseBoth

SpecParsers == InitParse /\ [][NextParsers]_vars

SpecParse == InitParse /\ [][NextParse]_vars

\* ------------------------------------------------------------------------
\* The sanitizer runs: a content is sanitized for a path, and the result is
\* sanitized once more.  response holds the content, parsed the results.
\* ------------------------------------------------------------------------
SanitizeTokens == {FN, FNQ, EMDASH, LQUOTE, NL, EXPDEF, Tok("impcomp", <<"Header">>)}

RECURSIVE Contents(_)
Contents(n) ==
    IF n = 0 THEN {<<>>}
    ELSE {Append(c, t) : c \in Contents(n - 1), t \in SanitizeTokens} \cup Contents(n - 1)

SanitizePaths == {AppPath, <<"src", "index.css">>}

\* Two layouts of a component file longer than MaxLen: one that begins with
\* other imports, one that begins with an import spanning several lines.
ImportLayouts ==
    {<<Tok("impcomp", <<"Header">>), NL, Tok("impcomp", <<"Footer">>), NL, NL, FN, NL, EXPDEF>>,
     <<IMPOPEN, NL, IMPNAME, NL, IMPFROM, NL, NL, FN, NL, EXPDEF>>,
     <<NL, FN, NL, NL, EXPDEF, NL>>}

InitSanitize ==
    /\ response \in Contents(MaxLen) \cup ImportLayouts
    /\ parsed = NoParse
    /\ pc = "content"
    /\ existing_files = {}
    /\ sandbox_files = {}
    /\ active_sandbox = "runnable"
    /\ Idle

SanitizeOnce(file_path) ==
    /\ pc = "content"
    /\ parsed' = [file_path  |-> file_path,
                  utf8       |-> sanitize_content_for_utf8(response),
                  jsx        |-> sanitize_and_validate_jsx(response, file_path),
                  utf8_again |-> <<>>,
                  jsx_again  |-> <<>>]
    /\ pc' = "sanitized"
    /\ UNCHANGED <<response, session, request>>

SanitizeAgain ==
    /\ pc = "sanitized"
    /\ parsed' = [parsed EXCEPT
                     !.utf8_again = sanitize_content_for_utf8(parsed.utf8),
                     !.jsx_again  = sanitize_and_validate_jsx(parsed.jsx, parsed.file_path)]
    /\ pc' = "resanitized"
    /\ UNCHANGED <<response, session, request>>

NextSanitize ==
    \/ \E file_path \in SanitizePaths : SanitizeOnce(file_path)
    \/ SanitizeAgain

SpecSanitize == InitSanitize /\ [][NextSanitize]_vars

\* ------------------------------------------------------------------------
\* The package derivation on its own: the content of one file of a Change
\* Set is drawn, and extract_packages_from_code is applied to it.
\* ------------------------------------------------------------------------
PackageTokens ==
    {Tok("imppkg", <<"axios">>), Tok("imppkg", <<"fs">>),
     Tok("imppkg", <<"react">>), Tok("imppkg", <<"lodash", "merge">>),
     Tok("imppkg", <<"@heroicons", "react", "24">>),
     Tok("reqpkg", <<"lodash">>), Tok("impcomp", <<"Header">>), NL}

RECURSIVE PackageContents(_)
PackageContents(n) ==
    IF n = 0 THEN {<<>>}
    ELSE {Append(c, t) : c \in PackageContents(n - 1), t \in PackageTokens}
         \cup PackageContents(n - 1)

InitPackages ==
    /\ response \in PackageContents(MaxLen)
    /\ parsed = NoParse
    /\ pc = "content"
    /\ existing_files = {}
    /\ sandbox_files = {}
    /\ active_sandbox = "runnable"
    /\ Idle

ExtractPackages ==
    /\ pc = "content"
    /\ parsed' = [NoParse EXCEPT !.packages = extract_packages_from_code(response)]
    /\ pc' = "extracted"
    /\ UNCHANGED <<response, session, request>>

NextPackages == ExtractPackages

SpecPackages == InitPackages /\ [][NextPackages]_vars

\* ------------------------------------------------------------------------
\* The apply-requests of a session: POST and its event_stream
\* ------------------------------------------------------------------------
Init ==
    /\ response = <<>>
    /\ parsed = NoParse
    /\ pc = "idle"
    /\ existing_files \in InitialKnown
    /\ sandbox_files = existing_files
    /\ active_sandbox \in Sandboxes
    /\ Idle

ComponentFiles(fs) == {f \in fs : Len(f) >= 3 /\ f[1] = "src" /\ f[2] = "components"}

WriteSnippets(sns) == SelectSeq(sns, LAMBDA sn : sn.kind = "write")

\* POST, lines 702-806: parse the text, then clean the components directory
\* (clean_components_directory_before_generation, lines 138-217).
POST(r, o) ==
    /\ response' = r
    /\ parsed' = parse_ai_response(r)
    /\ LET out     == _run_in_sandbox(active_sandbox, o)
           removed == {f \in ComponentFiles(sandbox_files) : IsCodeExt(LastName(f))}
       IN /\ snippets' = <<Snippet("cleanup", <<>>, <<>>, out)>>
          /\ sandbox_files' = IF out = "ok" /\ removed # {}
                              THEN sandbox_files \ ComponentFiles(sandbox_files)
                              ELSE sandbox_files
          /\ cleanup_result' = (out = "ok" /\ removed # {})
    /\ idx' = 1
    /\ results' = NoResults
    /\ events' = <<>>
    /\ prev' = WriteSnippets(snippets)
    /\ pc' = "stream"
    /\ UNCHANGED <<existing_files, file_cache, active_sandbox, suspended, services>>

\* The first request of a session.
Request(r, o) ==
    /\ pc = "idle"
    /\ again' = FALSE
    /\ POST(r, o)

\* The same text is posted once more when the stream of the first request
\* has ended.
Again(o) ==
    /\ pc = "done"
    /\ ~again
    /\ again' = TRUE
    /\ POST(response, o)

\* event_stream, lines 827-861 and 921-926 when no package is to be installed.
Start ==
    /\ pc = "stream"
    /\ events' = (IF cleanup_result THEN <<Event("cleanup", <<>>, "")>> ELSE <<>>)
                 \o <<Event("start", <<>>, "")>>
                 \o <<Event("step", <<>>, IF unique_pkgs # <<>> THEN "1.5" ELSE "2")>>
    /\ pc' = IF unique_pkgs # <<>> THEN "install" ELSE "files"
    /\ UNCHANGED <<response, parsed, session, cleanup_result, idx, results, snippets>>

\* npm install (line 874) puts each package under node_modules.
NodeModules(pkgs) == {<<"node_modules">> \o pkgs[i] : i \in 1..Len(pkgs)}

\* The install with a failure ending the request: after the warning the
\* stream goes to its complete event and no file is written.
InstallBlocks(o) ==
    /\ pc = "install"
    /\ LET out == _run_in_sandbox(active_sandbox, o)
       IN /\ snippets' = Append(snippets, Snippet("install", <<>>, unique_pkgs, out))
          /\ sandbox_files' = IF out = "ok" THEN sandbox_files \cup NodeModules(unique_pkgs)
                              ELSE sandbox_files
          /\ events' = events
                 \o <<Event(IF out = "ok" THEN "success" ELSE "warning", <<>>, "install")>>
                 \o <<Event("step", <<>>, "2")>>
          /\ pc' = IF out = "ok" THEN "files" ELSE "complete"
    /\ UNCHANGED <<response, parsed, existing_files, file_cache, active_sandbox, again,
                   prev, suspended, services, cleanup_result, idx, results>>

\* Lines 863-926: the batch install and its report.
Install(o) ==
    /\ pc = "install"
    /\ LET out == _run_in_sandbox(active_sandbox, o)
       IN /\ snippets' = Append(snippets, Snippet("install", <<>>, unique_pkgs, out))
          /\ sandbox_files' = IF out = "ok" THEN sandbox_files \cup NodeModules(unique_pkgs)
                              ELSE sandbox_files
          /\ events' = events
                 \o <<Event(IF out = "ok" THEN "success" ELSE "warning", <<>>, "install")>>
                 \o <<Event("step", <<>>, "2")>>
    /\ pc' = "files"
    /\ UNCHANGED <<response, parsed, existing_files, file_cache, active_sandbox, again,
                   prev, suspended, services, cleanup_result, idx, results>>

\* Lines 928-1059: the iteration for files_array[idx].
ApplyFile(o) ==
    /\ pc = "files"
    /\ idx <= Len(files_array)
    /\ LET file     == files_array[idx]
           fpath    == NormalizedPath(file.path)
           fcontent == written_content[file]
           out      == _run_in_sandbox(active_sandbox, o)
           progress == Event("file-progress", file.path, "creating")
       IN IF IsEmptyFile(file)
          THEN UNCHANGED <<events, snippets, results, existing_files, sandbox_files>>
          ELSE IF IsConfigFile(file)
          THEN /\ events' = Append(events, progress)
               /\ UNCHANGED <<snippets, results, existing_files, sandbox_files>>
          ELSE /\ snippets' = Append(snippets, Snippet("write", fpath, fcontent, out))
               /\ sandbox_files' = IF out = "ok" THEN sandbox_files \cup {fpath}
                                   ELSE sandbox_files
               /\ IF write_success(fcontent, out)
                  THEN IF is_update(fpath, existing_files)
                       THEN /\ results' = [results EXCEPT
                                   !.filesUpdated = Append(@, fpath)]
                            /\ events' = events \o
                                   <<progress, Event("file-complete", fpath, "updated")>>
                            /\ UNCHANGED existing_files
                       ELSE /\ results' = [results EXCEPT
                                   !.filesCreated = Append(@, fpath)]
                            /\ existing_files' = AddKnown(existing_files, fpath)
                            /\ events' = events \o
                                   <<progress, Event("file-complete", fpath, "created")>>
                  ELSE /\ results' = [results EXCEPT !.errors = Append(@,
                              IF out = "raise" THEN <<"Failed to create", file.path>>
                              ELSE <<"Failed to write", fpath>>)]
                       /\ events' = Append(events, progress)
                       /\ UNCHANGED existing_files
    /\ idx' = idx + 1
    /\ UNCHANGED <<response, parsed, pc, cleanup_result, file_cache, active_sandbox,
                   again, prev, suspended, services>>

HasJsx(paths) == \E i \in 1..Len(paths) : Ext(LastName(paths[i])) = "jsx"

\* Lines 1060-1114: after the loop, when a file changed, the written jsx
\* files are read back (debug_component_content) and the manifest cache is
\* refreshed through get_sandbox_files.GET.
\*   ok     the manifest is stored
\*   error  GET reports no success, or raises (caught at line 1111)
\*   none   main or the module is not loaded
RefreshCache(o) ==
    /\ pc = "files"
    /\ idx > Len(files_array)
    /\ FilesChanged(results)
    /\ snippets' = IF HasJsx(results.filesCreated \o results.filesUpdated)
                   THEN Append(snippets, Snippet("debug", <<>>, <<>>,
                                                 _run_in_sandbox(active_sandbox, "ok")))
                   ELSE snippets
    /\ file_cache' = IF o = "ok"
                     THEN {f \in sandbox_files : f[1] # "node_modules"}
                     ELSE file_cache
    /\ events' = events \o <<Event("step", <<>>, "3")>>
                 \o (CASE o = "ok" -> <<Event("success", <<>>, "cache")>>
                       [] o = "none" -> <<>>
                       [] OTHER -> <<Event("warning", <<>>, "cache")>>)
    /\ pc' = "restart"
    /\ UNCHANGED <<response, parsed, existing_files, sandbox_files, active_sandbox,
                   again, prev, suspended, services, cleanup_result, idx, results>>

\* force_vite_reload_after_changes, lines 359-434: it catches what
\* _run_in_sandbox raises and answers False.
force_vite_reload_after_changes(out) == out = "ok"

\* The restart with the exception of a failed run reaching the handler of
\* lines 1144-1150: an error event ends the stream.
RestartEscapes(o) ==
    /\ pc = "restart"
    /\ LET out == _run_in_sandbox(active_sandbox, o)
       IN /\ snippets' = Append(snippets, Snippet("restart", <<>>, <<>>, out))
          /\ events' = events \o
                 (IF out = "ok"
                  THEN <<Event("step", <<>>, "4"), Event("success", <<>>, "vite")>>
                  ELSE <<Event("step", <<>>, "4"), Event("error", <<>>, "")>>)
          /\ pc' = IF out = "ok" THEN "complete" ELSE "done"
    /\ UNCHANGED <<response, parsed, session, cleanup_result, idx, results>>

\* Lines 1117-1132.
Restart(o) ==
    /\ pc = "restart"
    /\ LET out == _run_in_sandbox(active_sandbox, o)
       IN /\ snippets' = Append(snippets, Snippet("restart", <<>>, <<>>, out))
          /\ events' = events \o
                 <<Event("step", <<>>, "4"),
                   Event(IF force_vite_reload_after_changes(out)
                         THEN "success" ELSE "warning", <<>>, "vite")>>
    /\ pc' = "complete"
    /\ UNCHANGED <<response, parsed, session, cleanup_result, idx, results>>

\* Lines 1134-1142: the complete event, carrying results.
Complete ==
    /\ \/ pc = "complete"
       \/ pc = "files" /\ idx > Len(files_array) /\ ~FilesChanged(results)
    /\ events' = Append(events, [Event("complete", <<>>, "") EXCEPT !.results = results])
    /\ pc' = "done"
    /\ UNCHANGED <<response, parsed, session, cleanup_result, idx, results, snippets>>

Next ==
    \/ \E r \in ApplyResponses, o \in Outcomes : Request(r, o)
    \/ \E o \in Outcomes : Again(o)
    \/ Start
    \/ \E o \in Outcomes : Install(o)
    \/ \E o \in Outcomes : ApplyFile(o)
    \/ \E o \in Outcomes \cup {"none"} : RefreshCache(o)
    \/ \E o \in Outcomes : Restart(o)
    \/ Complete

Spec == Init /\ [][Next]_vars

\* The event loop runs a stream to its end while the caller reads it.
Stream ==
    \/ Start
    \/ \E o \in Outcomes : Install(o)
    \/ \E o \in Outcomes : ApplyFile(o)
    \/ \E o \in Outcomes \cup {"none"} : RefreshCache(o)
    \/ \E o \in Outcomes : Restart(o)
    \/ Complete

FairSpec == Spec /\ WF_vars(Stream)

\* ------------------------------------------------------------------------
\* Two apply-requests of one session at a time.  Each runs as a task of the
\* one event loop; at an await (every call of _run_in_sandbox, every yield,
\* asyncio.sleep at lines 1034 and 1059) the loop may go on with the other
\* task.  The request variables are those of the running task, suspended
\* holds those of the other; the globals and the sandbox are shared.
\* ------------------------------------------------------------------------
Running ==
    [response |-> response, parsed |-> parsed, pc |-> pc,
     cleanup_result |-> cleanup_result, idx |-> idx, results |-> results,
     events |-> events, snippets |-> snippets]

Switch ==
    /\ suspended.pc # "done"
    /\ suspended' = Running
    /\ response' = suspended.response
    /\ parsed' = suspended.parsed
    /\ pc' = suspended.pc
    /\ cleanup_result' = suspended.cleanup_result
    /\ idx' = suspended.idx
    /\ results' = suspended.results
    /\ events' = suspended.events
    /\ snippets' = suspended.snippets
    /\ UNCHANGED <<existing_files, sandbox_files, file_cache, active_sandbox, again, prev,
                   services>>

\* The texts of the two requests: one file, and two files.
ConcurrentResponses ==
    {<<Tok("open", HeaderPath)>> \o PlainBody \o <<CLOSE, NL>>,
     <<Tok("open", AppPath)>> \o AppBody \o <<CLOSE, NL>>
        \o <<Tok("open", HeaderPath)>> \o PlainBody \o <<CLOSE, NL>>}

NextConcurrent ==
    \/ \E r \in ConcurrentResponses, o \in Outcomes : Request(r, o)
    \/ Start
    \/ \E o \in Outcomes : ApplyFile(o)
    \/ \E o \in Outcomes \cup {"none"} : RefreshCache(o)
    \/ \E o \in Outcomes : Restart(o)
    \/ Complete
    \/ Switch

SpecConcurrent == Init /\ [][NextConcurrent]_vars

\* ------------------------------------------------------------------------
\* The file loop on one FileEdit whose path is drawn from EditPaths: the
\* request has parsed a text with one file tag of that path.
\* ------------------------------------------------------------------------
InitPaths ==
    /\ response = <<>>
    /\ \E file \in PathFiles : parsed = [NoParse EXCEPT !.files = <<file>>]
    /\ pc = "files"
    /\ existing_files = {}
    /\ sandbox_files = {}
    /\ active_sandbox = "runnable"
    /\ Idle

NextPaths == \E o \in Outcomes : ApplyFile(o)

SpecPaths == InitPaths /\ [][NextPaths]_vars

\* ------------------------------------------------------------------------
\* The sandbox endpoints of main.py: create-ai-sandbox, kill-sandbox and an
\* apply-request, each with the sync_globals runs of its handler.
\* ------------------------------------------------------------------------
MaxSandboxes == 4

target_modules ==
    {"create_ai_sandbox", "apply_ai_code_stream", "get_sandbox_files",
     "sandbox_status", "restart_vite", "kill_sandbox", "sandbox_logs"}

\* Lines 96-104: the first module of MODULES whose active_sandbox is not None.
HasSource(mods) == \E i \in 1..Len(module_specs) : mods[module_specs[i]] # None

primary_source(mods) ==
    module_specs[CHOOSE i \in 1..Len(module_specs) :
                     /\ mods[module_specs[i]] # None
                     /\ \A j \in 1..(i - 1) : mods[module_specs[j]] = None]

\* sync_globals, lines 90-163, on the active_sandbox globals.  When no module
\* holds a sandbox, the fallback source of lines 107-117 holds None as all
\* the others do, and nothing changes.
sync_globals(mods) ==
    IF ~HasSource(mods) THEN mods
    ELSE [m \in ModuleNames |->
             IF m \in target_modules /\ m # primary_source(mods)
             THEN mods[primary_source(mods)]
             ELSE mods[m]]

\* sandbox.close()
Closed(sbs, sandbox) ==
    IF sandbox = None THEN sbs ELSE [sbs EXCEPT ![sandbox] = "closed"]

CreateOutcomes == {"ok", "create_raises", "setup_raises"}

\* api_create_ai_sandbox (main.py lines 337-350) around create_ai_sandbox.POST
\* (lines 605-737): the sandbox the module holds is closed, a new one is
\* created and set up, and sync_globals runs when POST reports success.
CreateSandbox(o) ==
    /\ pc = "idle"
    /\ Len(sandboxes) < MaxSandboxes
    /\ LET old == MODULES["create_ai_sandbox"]
           new == Len(sandboxes) + 1
       IN CASE o = "create_raises" ->
                 /\ sandboxes' = Closed(sandboxes, old)
                 /\ MODULES' = [MODULES EXCEPT !["create_ai_sandbox"] = None]
                 /\ last' = [op |-> "create", sandbox |-> None, answer |-> "error",
                             sandboxId |-> None, before |-> MODULES["apply_ai_code_stream"]]
            [] o = "setup_raises" ->
                 /\ sandboxes' = Append(Closed(sandboxes, old), "closed")
                 /\ MODULES' = [MODULES EXCEPT !["create_ai_sandbox"] = new]
                 /\ last' = [op |-> "create", sandbox |-> new, answer |-> "error",
                             sandboxId |-> None, before |-> MODULES["apply_ai_code_stream"]]
            [] OTHER ->
                 /\ sandboxes' = Append(Closed(sandboxes, old), "open")
                 /\ MODULES' = sync_globals([MODULES EXCEPT !["create_ai_sandbox"] = new])
                 /\ last' = [op |-> "create", sandbox |-> new, answer |-> "success",
                             sandboxId |-> None, before |-> MODULES["apply_ai_code_stream"]]
    /\ UNCHANGED <<response, parsed, pc, existing_files, sandbox_files, file_cache,
                   active_sandbox, again, prev, suspended, stream, consumer, dev_server,
                   request>>

\* api_kill_sandbox (main.py lines 464-471): sync_globals, kill_sandbox.POST
\* (lines 100-168: the sandbox the module holds is closed and its global set
\* to None), sync_globals.
KillSandbox ==
    /\ pc = "idle"
    /\ LET synced == sync_globals(MODULES)
           killed == synced["kill_sandbox"]
       IN /\ sandboxes' = Closed(sandboxes, killed)
          /\ MODULES' = sync_globals([synced EXCEPT !["kill_sandbox"] = None])
          /\ last' = [op |-> "kill", sandbox |-> killed, answer |-> "success",
                      sandboxId |-> None, before |-> MODULES["apply_ai_code_stream"]]
    /\ UNCHANGED <<response, parsed, pc, existing_files, sandbox_files, file_cache,
                   active_sandbox, again, prev, suspended, stream, consumer, dev_server,
                   request>>

\* api_apply_ai_code_stream (main.py lines 423-443) around the sandbox
\* resolution of POST (apply_ai_code_stream.py lines 751-804): the request
\* works on the sandbox the module holds; with none, it connects to the
\* sandboxId it carries; with neither, it answers "No active sandbox found".
ApplyRequest(sandboxId) ==
    /\ pc = "idle"
    /\ LET synced == sync_globals(MODULES)
           held   == synced["apply_ai_code_stream"]
       IN CASE held # None ->
                 /\ MODULES' = synced
                 /\ last' = [op |-> "apply", sandbox |-> held, answer |-> "stream",
                             sandboxId |-> sandboxId, before |-> held]
            [] held = None /\ sandboxId # None /\ sandboxes[sandboxId] = "open" ->
                 /\ MODULES' = sync_globals([synced EXCEPT !["apply_ai_code_stream"] = sandboxId])
                 /\ last' = [op |-> "apply", sandbox |-> sandboxId, answer |-> "stream",
                             sandboxId |-> sandboxId, before |-> held]
            [] held = None /\ sandboxId # None /\ sandboxes[sandboxId] = "closed" ->
                 /\ MODULES' = synced
                 /\ last' = [op |-> "apply", sandbox |-> None,
                             answer |-> "Failed to reconnect to sandbox",
                             sandboxId |-> sandboxId, before |-> held]
            [] OTHER ->
                 /\ MODULES' = synced
                 /\ last' = [op |-> "apply", sandbox |-> None,
                             answer |-> "No active sandbox found",
                             sandboxId |-> sandboxId, before |-> held]
    /\ UNCHANGED <<response, parsed, pc, existing_files, sandbox_files, file_cache,
                   active_sandbox, again, prev, suspended, sandboxes, stream, consumer,
                   dev_server, request>>

NextSandbox ==
    \/ \E o \in CreateOutcomes : CreateSandbox(o)
    \/ KillSandbox
    \/ \E sandboxId \in 0..Len(sandboxes) : ApplyRequest(sandboxId)

\* The server after its start (lifespan, main.py lines 239-249) with no
\* saved sandbox to recover: no module holds a sandbox.
InitSandbox ==
    /\ response = <<>>
    /\ parsed = NoParse
    /\ pc = "idle"
    /\ existing_files = {}
    /\ sandbox_files = {}
    /\ active_sandbox = "runnable"
    /\ Idle

SpecSandbox == InitSandbox /\ [][NextSandbox]_vars

\* ------------------------------------------------------------------------
\* Properties of the sanitizers, checked on SpecSanitize
\* ------------------------------------------------------------------------
Resanitized == pc = "resanitized"

\* C11 as stated: each sanitizer is idempotent, that is, sanitizing the
\* result of sanitize_content_for_utf8 or of sanitize_and_validate_jsx (for
\* the same path) once more leaves it as it is.
C11_SanitizersIdempotent ==
    Resanitized => parsed.utf8_again = parsed.utf8 /\ parsed.jsx_again = parsed.jsx

\* The half of C11 that holds: sanitize_content_for_utf8 is idempotent, and so
\* is sanitize_and_validate_jsx for a path that does not end in .jsx.
C11_Utf8Idempotent ==
    Resanitized =>
        /\ parsed.utf8_again = parsed.utf8
        /\ Ext(LastName(parsed.file_path)) # "jsx" => parsed.jsx_again = parsed.jsx

\* The case of C23: a .jsx file that holds a component and no React import,
\* and that the other steps of the sanitizer leave alone (it has its export
\* default and no character that is replaced or removed).
LacksReactImport ==
    /\ pc \in {"sanitized", "resanitized"}
    /\ Ext(LastName(parsed.file_path)) = "jsx"
    /\ ~Has(response, {"impreact"}) /\ Has(response, {"fn"})
    /\ Has(response, {"expdef"})
    /\ \A i \in 1..Len(response) : IsAscii(response[i])

ImportLines(lines) == {i \in 1..Len(lines) : lines[i] # <<>> /\ IsImport(lines[i][1])}
NonEmptyLines(lines) == SelectSeq(lines, LAMBDA l : l # <<>>)

\* The lines of a text without its first React import line.
WithoutReactLine(lines) ==
    LET at == {i \in 1..Len(lines) : lines[i] = <<IMPREACT>>}
    IN IF at = {} THEN lines
       ELSE LET i == CHOOSE j \in at : \A k \in at : j <= k
            IN SubSeq(lines, 1, i - 1) \o SubSeq(lines, i + 1, Len(lines))

\* C23 as stated: for a .jsx file that lacks the React import, the sanitizer
\* inserts the React import as the first import line of the file and leaves
\* every other line unchanged and in its order, whatever the layout.
C23_ReactImportFirst ==
    LacksReactImport =>
        LET lines == SplitLines(parsed.jsx)
        IN /\ ImportLines(lines) # {}
           /\ lines[CHOOSE i \in ImportLines(lines) : \A k \in ImportLines(lines) : i <= k]
                  = <<IMPREACT>>
           /\ NonEmptyLines(WithoutReactLine(lines)) = NonEmptyLines(SplitLines(response))

\* What holds instead: one React import line is inserted somewhere, and the
\* other lines that are not empty are kept as they are, in their order.
C23_OtherLinesKept ==
    LacksReactImport =>
        LET lines == SplitLines(parsed.jsx)
        IN /\ Has(parsed.jsx, {"impreact"})
           /\ NonEmptyLines(WithoutReactLine(lines)) = NonEmptyLines(SplitLines(response))

\* ------------------------------------------------------------------------
\* install_packages.py: POST starts _install_worker as a task and returns
\* the stream; the consumer iterates over the stream while the worker runs.
\* events holds what the worker handed to send, snippets what it ran in the
\* sandbox, parsed.packages the packages it still has to install.
\* ------------------------------------------------------------------------
\* The None that close puts on the queue.
EndOfStream == "None"

\* EventStreamResponse.send, lines 53-57.
send(s, data) ==
    IF s.closed THEN s ELSE [s EXCEPT !.queue = Append(@, data)]

\* EventStreamResponse.close, lines 59-63.
CloseAgain(s) == [queue |-> Append(s.queue, EndOfStream), closed |-> TRUE]
close(s) ==
    IF s.closed THEN s ELSE [queue |-> Append(s.queue, EndOfStream), closed |-> TRUE]

RECURSIVE SendAll(_, _)
SendAll(s, datas) ==
    IF datas = <<>> THEN s ELSE SendAll(send(s, Head(datas)), Tail(datas))

\* What the worker hands to send, with the state of the stream at that time.
Sent(s, datas) == [i \in 1..Len(datas) |-> [type |-> datas[i], late |-> s.closed]]

InstallPackageSets == {<<(<<"axios">>)>>, <<(<<"axios">>), (<<"lodash">>)>>}

InitInstall ==
    /\ response = <<>>
    /\ parsed = NoParse
    /\ pc = "idle"
    /\ existing_files = {}
    /\ sandbox_files = {}
    /\ active_sandbox = "runnable"
    /\ Idle

\* POST, lines 420-513, with a sandbox at hand: a new stream, and the worker
\* created as a task.
InstallPOST(valid_packages) ==
    /\ pc \in {"idle", "done"}
    /\ pc = "done" => consumer.done
    /\ parsed' = [NoParse EXCEPT !.packages = valid_packages]
    /\ stream' = EventStreamResponse
    /\ consumer' = NoConsumer
    /\ events' = <<>>
    /\ snippets' = <<>>
    /\ pc' = "start"
    /\ UNCHANGED <<response, existing_files, sandbox_files, file_cache, active_sandbox,
                   again, prev, suspended, MODULES, sandboxes, last, dev_server,
                   cleanup_result, idx, results>>

WorkerUnchanged ==
    UNCHANGED <<response, existing_files, sandbox_files, file_cache, active_sandbox,
                again, prev, suspended, MODULES, sandboxes, last, consumer,
                cleanup_result, idx, results>>

\* Lines 174-196: the start and status events, and the snippet that stops the
\* development server; "nopid" is its answer when it finds no server to stop.
StopServer(o) ==
    /\ pc = "start"
    /\ stream' = SendAll(stream, <<"start", "status">>)
    /\ events' = events \o Sent(stream, <<"start", "status">>)
    /\ snippets' = Append(snippets, Snippet("stop", <<>>, <<>>, o))
    /\ dev_server' = IF o = "ok" THEN "stopped" ELSE dev_server
    /\ pc' = IF o = "raise" THEN "except" ELSE "check"
    /\ UNCHANGED parsed
    /\ WorkerUnchanged

\* Lines 198-262: the packages the sandbox reports as missing; when none is
\* missing the worker sends success, closes the stream and returns.
CheckInstalled(o, packages_to_install) ==
    /\ pc = "check"
    /\ snippets' = Append(snippets, Snippet("check", <<>>, <<>>, o))
    /\ events' = events \o Sent(stream,
                     IF o = "raise" THEN <<"status">>
                     ELSE IF packages_to_install = <<>> THEN <<"status", "success">>
                     ELSE <<"status">>)
    /\ stream' = IF o = "raise" THEN send(stream, "status")
                 ELSE IF packages_to_install = <<>>
                 THEN close(SendAll(stream, <<"status", "success">>))
                 ELSE send(stream, "status")
    /\ parsed' = [parsed EXCEPT !.packages =
                     IF o = "raise" THEN @ ELSE packages_to_install]
    /\ pc' = IF o = "raise" THEN "except"
             ELSE IF packages_to_install = <<>> THEN "finally"
             ELSE "install"
    /\ UNCHANGED dev_server
    /\ WorkerUnchanged

\* Lines 264-362: npm install of the missing packages, and success or error
\* according to what the snippet verified.
InstallMissing(o) ==
    /\ pc = "install"
    /\ snippets' = Append(snippets, Snippet("install", <<>>, parsed.packages, o))
    /\ events' = events \o Sent(stream,
                     IF o = "raise" THEN <<"info">>
                     ELSE IF o = "ok" THEN <<"info", "success">>
                     ELSE <<"info", "error">>)
    /\ stream' = IF o = "raise" THEN send(stream, "info")
                 ELSE IF o = "ok" THEN SendAll(stream, <<"info", "success">>)
                 ELSE SendAll(stream, <<"info", "error">>)
    /\ pc' = IF o = "raise" THEN "except" ELSE "restart"
    /\ UNCHANGED <<parsed, dev_server>>
    /\ WorkerUnchanged

\* Lines 364-405: the development server is started again, and complete.
RestartServer(o) ==
    /\ pc = "restart"
    /\ snippets' = Append(snippets, Snippet("restart", <<>>, <<>>, o))
    /\ events' = events \o Sent(stream,
                     IF o = "raise" THEN <<"status">> ELSE <<"status", "complete">>)
    /\ stream' = IF o = "raise" THEN send(stream, "status")
                 ELSE SendAll(stream, <<"status", "complete">>)
    /\ dev_server' = IF o = "raise" THEN dev_server ELSE "running"
    /\ pc' = IF o = "raise" THEN "except" ELSE "finally"
    /\ UNCHANGED parsed
    /\ WorkerUnchanged

\* Lines 407-410.
WorkerExcept ==
    /\ pc = "except"
    /\ events' = events \o Sent(stream, <<"error">>)
    /\ stream' = send(stream, "error")
    /\ pc' = "finally"
    /\ UNCHANGED <<parsed, snippets, dev_server>>
    /\ WorkerUnchanged

\* Lines 411-412.
WorkerFinally ==
    /\ pc = "finally"
    /\ stream' = close(stream)
    /\ pc' = "done"
    /\ UNCHANGED <<parsed, events, snippets, dev_server>>
    /\ WorkerUnchanged

\* _aiter, lines 68-73: one turn of the consumer's loop.
Consume ==
    /\ ~consumer.done
    /\ stream.queue # <<>>
    /\ stream' = [stream EXCEPT !.queue = Tail(@)]
    /\ consumer' = IF Head(stream.queue) = EndOfStream
                   THEN [consumer EXCEPT !.done = TRUE]
                   ELSE [consumer EXCEPT !.received = Append(@, Head(stream.queue))]
    /\ UNCHANGED <<response, parsed, pc, existing_files, sandbox_files, file_cache,
                   active_sandbox, again, prev, suspended, MODULES, sandboxes, last,
                   dev_server, request>>

Worker ==
    \/ \E o \in {"ok", "nopid", "raise"} : StopServer(o)
    \/ \E o \in {"ok", "raise"} :
          \E n \in 0..Len(parsed.packages) :
              CheckInstalled(o, SubSeq(parsed.packages, 1, n))
    \/ \E o \in {"ok", "error", "raise"} : InstallMissing(o)
    \/ \E o \in {"ok", "raise"} : RestartServer(o)
    \/ WorkerExcept
    \/ WorkerFinally

NextInstall ==
    \/ \E valid_packages \in InstallPackageSets : InstallPOST(valid_packages)
    \/ Worker
    \/ Consume

SpecInstall == InitInstall /\ [][NextInstall]_vars

\* The event loop runs a task that is ready, and a snippet returns or raises.
FairSpecInstall == SpecInstall /\ WF_vars(Worker) /\ WF_vars(Consume)

\* ------------------------------------------------------------------------
\* Properties of the install worker, checked on FairSpecInstall
\* ------------------------------------------------------------------------
\* The events handed to send before the stream was closed, in send order.
SentBeforeClose ==
    LET early == SelectSeq(events, LAMBDA ev : ~ev.late)
    IN [i \in 1..Len(early) |-> early[i].type]

IsPrefix(a, b) == Len(a) <= Len(b) /\ SubSeq(b, 1, Len(a)) = a

\* The consumer never holds anything but the first events sent before the
\* close; once its iteration has ended it holds all of them, the stream is
\* closed and nothing is left on the queue.
DeliveredInOrder ==
    /\ IsPrefix(consumer.received, SentBeforeClose)
    /\ consumer.done => /\ consumer.received = SentBeforeClose
                         /\ stream.closed
                         /\ stream.queue = <<>>
    /\ pc = "done" => stream.closed

Ran(kind) == {k \in 1..Len(snippets) : snippets[k].kind = kind /\ snippets[k].outcome = "ok"}

\* C30 as stated: on every path by which the worker finishes, the development
\* server it stopped at its start has been restarted before the stream is
\* closed.
C30_RestartedBeforeClose ==
    stream.closed /\ Ran("stop") # {} => Ran("restart") # {} /\ dev_server = "running"

\* What holds instead: the server is restarted on the paths that reach the
\* install snippet without an exception, verified or not.
C30_RestartedAfterInstall ==
    (/\ pc = "done" /\ Ran("stop") # {}
     /\ \E i \in 1..Len(events) : events[i].type = "complete")
        => Ran("restart") # {} /\ dev_server = "running"

\* ------------------------------------------------------------------------
\* Properties of the sandbox endpoints, checked on SpecSandbox
\* ------------------------------------------------------------------------
\* C25 as stated: after kill-sandbox has completed, its closing sync_globals
\* included, no route module's active_sandbox refers to the killed sandbox
\* (so that an apply-request without sandboxId finds no active sandbox).
C25_KilledSandboxForgotten ==
    last.op = "kill" /\ last.sandbox # None =>
        \A m \in target_modules : MODULES[m] # last.sandbox

\* What holds instead: kill-sandbox closes the sandbox that the modules
\* held, and afterwards all synced modules agree on one sandbox.
C25_KilledSandboxClosed ==
    last.op = "kill" /\ last.sandbox # None =>
        /\ sandboxes[last.sandbox] = "closed"
        /\ \A m \in target_modules : MODULES[m] = MODULES["apply_ai_code_stream"]

\* C26 as stated: after create-ai-sandbox has succeeded and sync_globals has
\* run, every synced route module holds the new sandbox as active_sandbox,
\* also when an earlier sandbox had been created and synced.
C26_NewSandboxEverywhere ==
    last.op = "create" /\ last.answer = "success" =>
        \A m \in target_modules : MODULES[m] = last.sandbox

\* What holds instead: every synced module holds the new sandbox when
\* apply_ai_code_stream held none before the creation.
C26_NewSandboxWhenNoneHeld ==
    last.op = "create" /\ last.answer = "success" /\ last.before = None =>
        \A m \in target_modules : MODULES[m] = last.sandbox

\* ------------------------------------------------------------------------
\* The two parsers compared, checked on SpecParsers
\* ------------------------------------------------------------------------
AppliedPaths == [i \in 1..Len(parsed.applied.files) |-> parsed.applied.files[i].path]

\* The strategy that gave the apply-side parser its files, 0 for none.
AppliedStrategy ==
    IF parsed.applied.files = <<>> THEN 0 ELSE parsed.applied.files[1].origin

\* C24 as stated: for every response text the two parsers fire the same
\* strategy and return the same sequence of file paths.
C24_SameParser ==
    pc = "both" =>
        /\ parsed.generated.paths = AppliedPaths
        /\ parsed.generated.paths # <<>> => parsed.generated.strategy = AppliedStrategy

\* What holds instead: the two parsers return the same set of paths whenever
\* the generate side returns a file, from the same strategy.
C24_SamePathSet ==
    pc = "both" /\ parsed.generated.paths # <<>> =>
        /\ {parsed.generated.paths[i] : i \in 1..Len(parsed.generated.paths)}
             = {AppliedPaths[i] : i \in 1..Len(AppliedPaths)}
        /\ parsed.generated.strategy = AppliedStrategy

\* ------------------------------------------------------------------------
\* Properties of parse_ai_response, checked on SpecParse
\* ------------------------------------------------------------------------
Parsed == pc = "parsed"

\* The matches strategy k finds in a text, each with the path and the
\* content the strategy would store for it.
MatchesOf(k, r) ==
    CASE k = 1 -> [i \in 1..Len(xml_matches(r)) |->
                     [path    |-> xml_matches(r)[i].path,
                      content |-> Strip(ReplaceAll(xml_matches(r)[i].content))]]
      [] k = 2 -> [i \in 1..Len(incomplete_matches(r)) |->
                     [path    |-> incomplete_matches(r)[i].path,
                      content |-> Strip(ReplaceAll(
                                     RemoveClose(incomplete_matches(r)[i].content)))]]
      [] k = 3 -> [i \in 1..Len(code_matches(r)) |->
                     [path    |-> CodeBlockPath(code_matches(r)[i].path),
                      content |-> Strip(ReplaceAll(code_matches(r)[i].content))]]
      [] k = 4 -> [i \in 1..Len(markdown_matches(r)) |->
                     [path    |-> markdown_matches(r)[i].path,
                      content |-> Strip(ReplaceAll(markdown_matches(r)[i].content))]]
      [] OTHER -> <<>>

\* Whether strategy k makes a file of a match with this content.
KeptBy(k, content) ==
    CASE k \in {1, 3} -> content # <<>>
      [] k = 2 -> TextLen(content) > MinIncompleteLen
      [] OTHER -> TRUE

MatchedSome(k, r) == IF k = 5 THEN HasReactIdiom(r) ELSE MatchesOf(k, r) # <<>>

Yields(k, r) ==
    IF k = 5 THEN HasReactIdiom(r)
    ELSE \E i \in 1..Len(MatchesOf(k, r)) : KeptBy(k, MatchesOf(k, r)[i].content)

SameOrigin(files) ==
    \A i, j \in 1..Len(files) : files[i].origin = files[j].origin

\* C12 as stated: every file content parse_ai_response returns holds only
\* ASCII characters; quotation marks, dashes, ellipsis and non-breaking
\* spaces have been replaced and every other character outside ASCII dropped.
C12_ContentIsAscii ==
    Parsed => \A i \in 1..Len(parsed.files) :
                  \A j \in 1..Len(parsed.files[i].content) :
                      IsAscii(parsed.files[i].content[j])

\* The part of C12 that holds: no returned content holds an en dash, an em
\* dash or an ellipsis.
C12_DashesReplaced ==
    Parsed => \A i \in 1..Len(parsed.files) :
                  \A j \in 1..Len(parsed.files[i].content) :
                      parsed.files[i].content[j].k \notin {"endash", "emdash", "ellipsis"}

RECURSIVE WellFormed(_)
WellFormed(s) ==
    \/ s = <<>>
    \/ /\ s[1].k = "open"
       /\ FirstOf(s, 2, {"close"}) # 0
       /\ FirstOf(s, 2, {"open", "close"}) = FirstOf(s, 2, {"close"})
       /\ WellFormed(SubSeq(s, FirstOf(s, 2, {"close"}) + 1, Len(s)))

RECURSIVE TagList(_)
TagList(s) ==
    IF s = <<>> THEN <<>>
    ELSE <<[path |-> s[1].p, body |-> SubSeq(s, 2, FirstOf(s, 2, {"close"}) - 1)]>>
         \o TagList(SubSeq(s, FirstOf(s, 2, {"close"}) + 1, Len(s)))

TagsReturned(tags, files) ==
    /\ Len(files) = Len(tags)
    /\ \A i \in 1..Len(tags) :
          /\ files[i].path = tags[i].path
          /\ files[i].content = Strip(ReplaceAll(tags[i].body))

DistinctBodied(tags) ==
    /\ \A i, j \in 1..Len(tags) : i # j => tags[i].path # tags[j].path
    /\ \A i \in 1..Len(tags) : Strip(tags[i].body) # <<>>

CompleteTag(p, b) == <<Tok("open", p)>> \o b \o <<CLOSE>>
OpenTag(p, b)     == <<Tok("open", p)>> \o b

\* C8: a complete tag and a separate unterminated tag, in either order, give
\* exactly one file, the complete tag's path with its body.
C8_CompleteTagOnly ==
    \A p, q \in TagPaths : \A b, u \in Bodies :
        (/\ Parsed
         /\ response \in {CompleteTag(p, b) \o OpenTag(q, u),
                          OpenTag(q, u) \o CompleteTag(p, b)})
        => /\ Len(parsed.files) = 1
           /\ parsed.files[1].path = p
           /\ parsed.files[1].content = Strip(ReplaceAll(b))

UniquePaths(files) ==
    \A i, j \in 1..Len(files) : i # j => files[i].path # files[j].path

\* The content of the last of the matches ms that has this path and that
\* keep marks (keep[i] for ms[i]); <<>> when there is none.
LastContent(ms, path, keep) ==
    LET I == {i \in 1..Len(ms) : ms[i].path = path /\ keep[i]}
    IN IF I = {} THEN <<>>
       ELSE ms[CHOOSE i \in I : \A j \in I : j <= i].content

AnyContent(ms) == [i \in 1..Len(ms) |-> TRUE]
KeptContent(k, ms) == [i \in 1..Len(ms) |-> KeptBy(k, ms[i].content)]

C13_ParseFailureFailsRequest ==
    (pc # "idle" /\ parsed.files = <<>>) => (snippets = <<>> /\ events = <<>>)

\* C14 as stated: every file-progress event is followed at once by one
\* file-complete or error event for the same file, and a file the applier
\* skips (a configuration file) has no event.
C14_ProgressThenOutcome ==
    \A i \in 1..Len(events) :
        events[i].type = "file-progress" =>
            /\ ~IsConfigFile([path |-> events[i].fileName])
            /\ i < Len(events)
            /\ events[i + 1].type \in {"file-complete", "error"}
            /\ events[i + 1].fileName = NormalizedPath(events[i].fileName)

\* The part of C14 that holds: a file-complete event comes right after the
\* file-progress event of the same file, and there is one for each file
\* written with success.
C14_CompleteAfterProgress ==
    \A i \in 1..Len(events) :
        events[i].type = "file-complete" =>
            /\ i > 1
            /\ events[i - 1].type = "file-progress"
            /\ events[i].fileName = NormalizedPath(events[i - 1].fileName)

\* The event types the specification of the stream lists.
ProgressEventTypes ==
    {"start", "status", "file-progress", "file-complete", "success", "warning",
     "error", "complete"}

\* C15 as stated: every event of the stream has one of the listed types.
C15_EventTypes ==
    \A i \in 1..Len(events) : events[i].type \in ProgressEventTypes

\* What holds of the types: the listed ones, and step and cleanup.
C15_EventTypesWithStep ==
    \A i \in 1..Len(events) : events[i].type \in ProgressEventTypes \cup {"step", "cleanup"}

\* C16 as stated: no call of _run_in_sandbox raises to its caller; each
\* returns a value, which marks the failure when there is one.
C16_ChannelNeverRaises ==
    \A i \in 1..Len(snippets) : snippets[i].outcome # "raise"

\* What holds of the channel: with a sandbox that has a run method every call
\* returns a value, also when the run method raises.
C16_RunnableNeverRaises ==
    active_sandbox = "runnable" =>
        \A i \in 1..Len(snippets) : snippets[i].outcome \in Outcomes

\* The install of the request failed: its snippet reported an error, or the
\* call raised.
InstallFailed == \E i \in 1..Len(snippets) :
                     snippets[i].kind = "install" /\ snippets[i].outcome # "ok"

\* The files of the Change Set that are due a write.
AllDue == SelectSeq(files_array, LAMBDA f : ~IsEmptyFile(f) /\ ~IsConfigFile(f))

WriteOutcomes == SelectSeq(snippets, LAMBDA sn : sn.kind = "write")

\* C17: when the install of a request failed, the stream still attempts
\* every file of the Change Set that is due a write, in order, and each
\* attempt counts as written or failed by its own outcome alone.
C17_InstallFailureDoesNotBlockFiles ==
    (InstallFailed /\ pc = "done") =>
        /\ Len(WriteOutcomes) = Len(AllDue)
        /\ \A i \in 1..Len(AllDue) :
              WriteOutcomes[i].path = NormalizedPath(AllDue[i].path)
        /\ Len(results.filesCreated \o results.filesUpdated)
              = Cardinality({i \in 1..Len(WriteOutcomes) :
                    write_success(WriteOutcomes[i].content, WriteOutcomes[i].outcome)})
        /\ Len(results.errors)
              = Cardinality({i \in 1..Len(WriteOutcomes) :
                    ~write_success(WriteOutcomes[i].content, WriteOutcomes[i].outcome)})

\* The install failed and both files of the request were written after it.
C17_Witness ==
    /\ pc = "done"
    /\ InstallFailed
    /\ Len(WriteOutcomes) = 2
    /\ Len(results.filesCreated \o results.filesUpdated) = 2
    /\ results.errors = <<>>

Elems(q) == {q[i] : i \in 1..Len(q)}
Count(q, x) == Cardinality({i \in 1..Len(q) : q[i] = x})
OfKind(kind) == SelectSeq(snippets, LAMBDA sn : sn.kind = kind)

Written(sn) == sn.outcome = "ok" /\ sn.content # <<>>
WrittenOf(sns) == SelectSeq(sns, Written)
FailedOf(sns)  == SelectSeq(sns, LAMBDA sn : ~Written(sn))

\* C1: the restart is invoked at most once in a request, only after the file
\* loop has gone through every file and never before a file write; when the
\* stream has ended it was invoked once if a file was created or updated
\* and not at all otherwise.
C1_RestartOnceAfterLoop ==
    /\ Len(OfKind("restart")) <= 1
    /\ OfKind("restart") # <<>> =>
          /\ idx > Len(files_array)
          /\ results.filesCreated \o results.filesUpdated # <<>>
    /\ pc = "done" =>
          (Len(OfKind("restart")) = 1
             <=> results.filesCreated \o results.filesUpdated # <<>>)
    /\ \A i, j \in 1..Len(snippets) :
          (i < j /\ snippets[i].kind = "restart") => snippets[j].kind # "write"

\* Two files, one written and one failed: one restart, after both.
C1_Witness ==
    /\ pc = "done"
    /\ Len(OfKind("write")) = 2
    /\ Len(results.errors) = 1
    /\ Len(OfKind("restart")) = 1
    /\ snippets[Len(snippets)].kind = "restart"

\* The files of the Change Set the loop has gone through that are due a write.
Due == SelectSeq(SubSeq(files_array, 1, idx - 1),
                 LAMBDA f : ~IsEmptyFile(f) /\ ~IsConfigFile(f))

\* C2: whatever writes fail, every file the loop has gone through was
\* attempted; results.errors has one entry for each failed attempt, in order,
\* and none else; filesCreated and filesUpdated together hold the paths of
\* the successful attempts, each as often as it was written.
C2_FailureIsolation ==
    /\ Len(OfKind("write")) = Len(Due)
    /\ \A i \in 1..Len(Due) : OfKind("write")[i].path = NormalizedPath(Due[i].path)
    /\ Len(results.errors) = Len(FailedOf(OfKind("write")))
    /\ \A k \in 1..Len(results.errors) :
          NormalizedPath(results.errors[k][2]) = FailedOf(OfKind("write"))[k].path
    /\ \A sn \in Elems(OfKind("write")) \cup
                 [kind : {"write"}, path : Elems(results.filesCreated \o results.filesUpdated),
                  content : {<<>>}, outcome : {"ok"}] :
          Count(results.filesCreated \o results.filesUpdated, sn.path)
             = Cardinality({i \in 1..Len(WrittenOf(OfKind("write"))) :
                               WrittenOf(OfKind("write"))[i].path = sn.path})

\* The first file failed, the second was attempted all the same and written.
C2_Witness ==
    /\ pc = "done"
    /\ Len(OfKind("write")) = 2
    /\ ~Written(OfKind("write")[1]) /\ Written(OfKind("write")[2])
    /\ Len(results.errors) = 1
    /\ results.filesCreated \o results.filesUpdated = <<OfKind("write")[2].path>>

\* The stream has ended with a complete event, its only one, whose results
\* name every written file and have an entry for every failed one.
CompleteSent ==
    /\ pc = "done"
    /\ events # <<>>
    /\ events[Len(events)].type = "complete"
    /\ \A i \in 1..(Len(events) - 1) : events[i].type # "complete"
    /\ \A sn \in Elems(WrittenOf(OfKind("write"))) :
          sn.path \in Elems(events[Len(events)].results.filesCreated
                            \o events[Len(events)].results.filesUpdated)
    /\ Len(events[Len(events)].results.errors) = Len(FailedOf(OfKind("write")))

\* C3: every stream POST starts ends with a complete event as its last
\* event, carrying the written files and the recorded errors, whatever the
\* install, the writes, the cache refresh and the restart came to.
C3_StreamCompletes == (pc = "stream") ~> CompleteSent

\* A stream that ended after a failed install, a failed and a successful
\* write, a failed cache refresh and a failed restart.
C3_Witness ==
    /\ CompleteSent
    /\ \E sn \in Elems(OfKind("install")) : sn.outcome = "error"
    /\ FailedOf(OfKind("write")) # <<>>
    /\ WrittenOf(OfKind("write")) # <<>>
    /\ \E e \in Elems(events) : e.type = "warning" /\ e.action = "cache"
    /\ \E sn \in Elems(OfKind("restart")) : sn.outcome = "error"

\* C18 as stated: when the stream has ended, every package of the request is
\* in exactly one of packagesInstalled, packagesAlreadyInstalled and
\* packagesFailed of the results the complete event carries, and in
\* packagesFailed when the install failed.
C18_PackagesCollected ==
    CompleteSent =>
        \A i \in 1..Len(unique_pkgs) :
            LET r == events[Len(events)].results
            IN /\ Count(r.packagesInstalled, unique_pkgs[i])
                    + Count(r.packagesAlreadyInstalled, unique_pkgs[i])
                    + Count(r.packagesFailed, unique_pkgs[i]) = 1
               /\ InstallFailed => unique_pkgs[i] \in Elems(r.packagesFailed)

\* What holds of the three lists: they are empty in every state.
C18_PackageListsEmpty ==
    /\ results.packagesInstalled = <<>>
    /\ results.packagesAlreadyInstalled = <<>>
    /\ results.packagesFailed = <<>>

\* The task has dispatched a write and has a write yet to dispatch.
MidLoop(task) ==
    /\ task.pc = "files"
    /\ \E i \in 1..Len(task.snippets) : task.snippets[i].kind = "write"
    /\ \E i \in task.idx..Len(task.parsed.files) :
          ~IsEmptyFile(task.parsed.files[i]) /\ ~IsConfigFile(task.parsed.files[i])

\* The step is the running task dispatching a write.
WriteDispatched ==
    /\ suspended' = suspended
    /\ Len(snippets') = Len(snippets) + 1
    /\ snippets'[Len(snippets')].kind = "write"

\* C19 as stated: two requests of one session do not interleave: no write of
\* one request is dispatched between the first and the last write of the
\* other.  (The restart is one step of the model, so that two restarts
\* never overlap in it.)
C19_NoInterleaving == [][WriteDispatched => ~MidLoop(suspended)]_vars

\* The names C20 lists.
ConfigNames ==
    {"tailwind.config.js", "vite.config.js", "package.json", "package-lock.json",
     "tsconfig.json", "postcss.config.js"}

\* C20: for a file whose base name is one of the configuration names, in
\* any directory, no write snippet is sent, and it is in none of
\* filesCreated, filesUpdated and errors.
C20_ConfigFilesNeverWritten ==
    /\ \A i \in 1..Len(snippets) :
          snippets[i].kind = "write" => LastName(snippets[i].path) \notin ConfigNames
    /\ \A p \in Elems(results.filesCreated \o results.filesUpdated) :
          LastName(p) \notin ConfigNames
    /\ \A k \in 1..Len(results.errors) : LastName(results.errors[k][2]) \notin ConfigNames

\* A request with a configuration file in a directory and another file:
\* the loop went through both and sent one write.
C20_Witness ==
    /\ pc = "done"
    /\ Len(files_array) = 2
    /\ \E i \in 1..2 : /\ LastName(files_array[i].path) \in ConfigNames
                        /\ Len(files_array[i].path) >= 2
    /\ Len(OfKind("write")) = 1
    /\ Len(results.filesCreated \o results.filesUpdated) = 1

\* The step is the running task handing an install snippet to the sandbox.
InstallDispatched ==
    /\ suspended' = suspended
    /\ Len(snippets') = Len(snippets) + 1
    /\ snippets'[Len(snippets')].kind = "install"

\* C21 as stated: before the install call of a request the sandbox has been
\* asked which packages are present, and no package handed to the install
\* call is present in the sandbox when the call is made.
C21_InstallsOnlyMissing ==
    [][InstallDispatched =>
          /\ \E j \in 1..Len(snippets) : snippets[j].kind = "check"
          /\ NodeModules(snippets'[Len(snippets')].content) \cap sandbox_files = {}]_vars

\* What holds of the install: one call in a request, with every package of
\* the request, present or not.
C21_InstallsAll ==
    /\ Len(OfKind("install")) <= 1
    /\ \A i \in 1..Len(snippets) :
          snippets[i].kind = "install" => snippets[i].content = unique_pkgs /\ unique_pkgs # <<>>

\* The platform built-ins: detect-and_install_packages.py line 160.
builtins == {"fs", "path", "http", "https", "crypto", "stream", "util", "os",
             "url", "querystring", "child_process"}

\* The root package of a specifier: two segments under a scope, else one.
RootPackage(p) ==
    IF StartsWithAt(p[1]) THEN SubSeq(p, 1, IF Len(p) >= 2 THEN 2 ELSE 1)
    ELSE SubSeq(p, 1, 1)

\* The packages the specification derives from a content: import and
\* require specifiers that are no path, not react/react-dom, no built-in.
RECURSIVE DerivedPackages(_)
DerivedPackages(content) ==
    IF content = <<>> THEN <<>>
    ELSE LET t    == Head(content)
             rest == DerivedPackages(Tail(content))
         IN IF /\ t.k \in {"imppkg", "reqpkg"}
               /\ t.p[1] \notin {".", "..", ""}
               /\ t.p \notin {<<"react">>, <<"react-dom">>}
               /\ ~(Len(t.p) = 1 /\ t.p[1] \in builtins)
            THEN <<RootPackage(t.p)>> \o SelectSeq(rest, LAMBDA q : q # RootPackage(t.p))
            ELSE rest

\* C22: the packages derived from a file content are exactly the root
\* packages of its import and require specifiers that are no relative or
\* absolute path, not react or react-dom and no platform built-in, each
\* listed once.
C22_PackagesExact ==
    pc = "extracted" => parsed.packages = DerivedPackages(response)

\* What holds instead: every derived package is the root package of a
\* module-style import specifier of the content, and none is listed twice.
C22_ImportRootsOnce ==
    pc = "extracted" =>
        /\ \A i \in 1..Len(parsed.packages) :
              \E j \in 1..Len(response) :
                  /\ response[j].k = "imppkg"
                  /\ parsed.packages[i] = RootPackage(response[j].p)
        /\ \A i, j \in 1..Len(parsed.packages) :
              parsed.packages[i] = parsed.packages[j] => i = j

\* The paths one request reports, created ones first.
Reported == results.filesCreated \o results.filesUpdated

\* C27 as stated: within one apply-request no sandbox path is reported twice:
\* filesCreated and filesUpdated hold no duplicate and share no path, also
\* when distinct paths of the Change Set normalise to the same sandbox path.
C27_NoPathReportedTwice ==
    \A i, j \in 1..Len(Reported) : Reported[i] = Reported[j] => i = j

\* What holds instead: every reported path was written by a snippet of the
\* request that succeeded, one report for each such snippet.
C27_OneReportPerWrite ==
    /\ \A i \in 1..Len(Reported) :
          \E k \in 1..Len(snippets) :
              /\ snippets[k].kind = "write" /\ snippets[k].path = Reported[i]
              /\ write_success(snippets[k].content, snippets[k].outcome)
    /\ Len(Reported) <= Len(WriteSnippets(snippets))

\* full_path = f"/home/user/app/{fpath}" (line 969) as the sandbox resolves
\* it when the snippet opens the file: an empty component and "." stand for
\* nothing, and ".." leaves the directory reached so far.
app_root == <<"home", "user", "app">>

RECURSIVE Resolve(_, _)
Resolve(at, comps) ==
    IF comps = <<>> THEN at
    ELSE IF Head(comps) \in {"", "."} THEN Resolve(at, Tail(comps))
    ELSE IF Head(comps) = ".."
    THEN Resolve(IF at = <<>> THEN at ELSE SubSeq(at, 1, Len(at) - 1), Tail(comps))
    ELSE Resolve(Append(at, Head(comps)), Tail(comps))

full_path(fpath) == Resolve(<<>>, app_root \o fpath)

InsideApp(target) ==
    /\ Len(target) > Len(app_root)
    /\ SubSeq(target, 1, Len(app_root)) = app_root
    /\ \/ target[Len(app_root) + 1] \in {"src", "public"} /\ Len(target) > Len(app_root) + 1
       \/ target = app_root \o <<"index.html">>

\* C28 as stated: every write snippet the applier sends targets a file inside
\* the application root /home/user/app, under src/, under public/ or at
\* index.html, whatever the FileEdit path, ".." segments and several leading
\* separators included.
C28_WritesInsideApp ==
    \A k \in 1..Len(snippets) :
        snippets[k].kind = "write" => InsideApp(full_path(snippets[k].path))

\* What holds instead: the target is inside the application root, under
\* src/, under public/ or at index.html, when the path has no ".." segment.
C28_WritesInsideAppWithoutDotDot ==
    \A k \in 1..Len(snippets) :
        (/\ snippets[k].kind = "write"
         /\ \A i \in 1..Len(snippets[k].path) : snippets[k].path[i] # "..")
            => InsideApp(full_path(snippets[k].path))

\* C4: when the same text has been applied a second time, every file written
\* in both requests is reported as updated, not created, by the second, and
\* was sent with the same content in both.
C4_SecondApplyUpdates ==
    (pc = "done" /\ again) =>
        \A j \in 1..Len(OfKind("write")) :
            (j <= Len(prev) /\ Written(prev[j]) /\ Written(OfKind("write")[j])) =>
                /\ OfKind("write")[j].path \in Elems(results.filesUpdated)
                /\ OfKind("write")[j].path \notin Elems(results.filesCreated)
                /\ OfKind("write")[j].content = prev[j].content

\* C5: every path reported in filesCreated is in the known-file set.
C5_CreatedAreKnown ==
    \A i \in 1..Len(results.filesCreated) : results.filesCreated[i] \in existing_files

\* The component a file of the components directory defines.
ComponentOf(path) ==
    IF Len(path) = 3 /\ path[1] = "src" /\ path[2] = "components"
    THEN CASE path[3] = "Header.jsx" -> "Header"
           [] path[3] = "Footer.jsx" -> "Footer"
           [] OTHER -> ""
    ELSE ""

\* C10: the content written for src/App.jsx imports no component of
\* ./components that has no file in the Change Set.
C10_ImportParity ==
    \A sn \in Elems(OfKind("write")) :
        sn.path = AppPath =>
            \A i \in 1..Len(sn.content) :
                sn.content[i].k = "impcomp" =>
                    \E f \in Elems(files_array) :
                        ComponentOf(NormalizedPath(f.path)) = sn.content[i].p[1]

====
